---- MODULE Spec2Model ----
(***************************************************************************)
(* Model of the RIH assistant's safety-classification and response         *)
(* orchestration pipeline: safety_router.route, Planner.plan,              *)
(* LLMPlanner.plan, DeclineDetector.is_decline, ClarifyDetector,           *)
(* retriever.retrieve and Dispatcher.respond.                              *)
(*                                                                         *)
(* A user text is a sequence of words joined by single blanks.  Python's   *)
(* substring test (m in t) and the word-boundary regular expressions are   *)
(* evaluated on that sequence: a one-word marker occurs in a text when it  *)
(* is a substring of one of the words, a several-word marker when it       *)
(* straddles consecutive words, and a \b...\b pattern when the words it    *)
(* accepts occur as consecutive whole words.                               *)
(***************************************************************************)
EXTENDS Integers, Sequences, FiniteSets, TLC

\* ------------------------------------------------------------------ bounds
\* longest user text, in words
MaxWords == 2
\* longest plan an injected external planner returns
MaxPlanLen == 3

\* ------------------------------------------------------------- vocabulary
\* The words user texts are made of.  "Doctor" is capitalised so that the
\* lower-casing done by the planner, the dispatcher and the clarify
\* detectors (and re.IGNORECASE in the regular expressions) is exercised.
Vocabulary ==
    { "suicide", "rape", "harassed", "withdraw", "therapy", "appointment",
      "availability", "Doctor", "workshop", "nah" }

\* str.lower() on one word
LowerWord(w) == IF w = "Doctor" THEN "doctor" ELSE w

\* str.lower() on a text
Lower(t) == [i \in 1..Len(t) |-> LowerWord(t[i])]

\* all texts of at most n words
TextsUpTo(n) == UNION { [1..k -> Vocabulary] : k \in 0..n }

Texts == TextsUpTo(MaxWords)

\* Proper-substring facts between the marker words of the source and the
\* lower-cased words that occur in texts and knowledge chunks: <<a, b>>
\* means a != b and Python's (a in b) holds.
ProperSubstr == { <<"harass", "harassed">>, <<"lab", "availability">> }

\* <<a, b>>: a != b and b.startswith(a)
ProperPrefix == { <<"harass", "harassed">> }

\* <<a, b>>: a != b and b.endswith(a)
ProperSuffix == { }

SubstrOfWord(a, b) == a = b \/ <<a, b>> \in ProperSubstr

PrefixOfWord(a, b) == a = b \/ <<a, b>> \in ProperPrefix

SuffixOfWord(a, b) == a = b \/ <<a, b>> \in ProperSuffix

\* Python's (m in t) for a marker m (a sequence of words, one blank between
\* them) and an already lower-cased text t
In(m, t) ==
    LET n == Len(m) IN
    \E i \in 1..(Len(t) - n + 1) :
        IF n = 1
        THEN SubstrOfWord(m[1], t[i])
        ELSE /\ SuffixOfWord(m[1], t[i])
             /\ \A j \in 2..(n - 1) : m[j] = t[i + j - 1]
             /\ PrefixOfWord(m[n], t[i + n - 1])

\* any(w in t for w in words)
ContainsAny(t, words) == \E m \in words : In(m, t)

\* re.search of a \b-delimited pattern, given as the set of word sequences
\* it accepts, in text t under re.IGNORECASE
SearchWords(phrases, t) ==
    LET lt == Lower(t) IN
    \E i \in 1..Len(lt) :
        \E n \in 1..(Len(lt) - i + 1) : SubSeq(lt, i, i + n - 1) \in phrases

\* ------------------------------------------------------------- safety router
\* Python's None
None == "None"

\* an order of the levels that tries counseling first
LEVELS_counseling_first == << "counseling", "urgent_safety", "title_ix",
                              "harassment_hate", "retention_withdraw" >>

\* the order in which route tries the levels
LEVELS == << "urgent_safety", "title_ix", "harassment_hate",
             "retention_withdraw", "counseling" >>

\* SLANG_URGENCY + PHRASES_URGENCY
URGENCY ==
    { <<"kms">>, <<"unalive">>, <<"kill", "myself">>, <<"suicide">>,
      <<"end", "it">>, <<"hurt", "myself">>, <<"hurt", "others">>,
      <<"take", "my", "life">>, <<"no", "reason", "to", "live">> }

\* harass(ed|ment|ing)?
HarassForms == { "harass", "harassed", "harassment", "harassing" }

\* TITLE_IX; sex(ual)?\s*(...) accepts the two words apart or closed up
TITLE_IX ==
    LET objs == HarassForms \cup { "assault", "misconduct", "coercion" } IN
    { <<a, b>> : a \in { "sex", "sexual" }, b \in objs }
    \cup { <<a \o b>> : a \in { "sex", "sexual" }, b \in objs }
    \cup { <<"nonconsensual">>, <<"non-consensual">>, <<"non", "consensual">>,
           <<"non", "-consensual">>, <<"non-", "consensual">>,
           <<"non", "-", "consensual">> }
    \cup { <<"rape">>, <<"stalk">>, <<"stalking">> }

\* CONDUCT: generic harassment is caught here, not in TITLE_IX
CONDUCT ==
    { <<w>> : w \in HarassForms }
    \cup { <<"slur">>, <<"hate">>, <<"racist">>, <<"homophobic">>,
           <<"ableist">>, <<"threat">>, <<"threats">>, <<"threaten">>,
           <<"threatening">>, <<"bully">>, <<"bullying">>, <<"intimidat">>,
           <<"intimidate">>, <<"intimidation">>, <<"intimidating">>,
           <<"doxx">>, <<"doxxing">>, <<"targeted", "harassment">> }

\* RETENTION; drop\s?out accepts "drop out" and "dropout"
RETENTION ==
    { <<"withdraw">>, <<"transfer">>, <<"drop", "out">>, <<"dropout">>,
      <<"leave", "school">>, <<"quit", "college">> }

\* COUNSELING ('appointment' is deliberately not a trigger)
COUNSELING ==
    { <<"counsel">>, <<"counseling">>, <<"therapy">>, <<"therapist">>,
      <<"mental", "health">>, <<"talk", "to", "someone">>,
      <<"talk", "to", "a", "counselor">> }

\* the compiled pattern of each level
COMPILED(level) ==
    CASE level = "urgent_safety" -> URGENCY
      [] level = "title_ix" -> TITLE_IX
      [] level = "harassment_hate" -> CONDUCT
      [] level = "retention_withdraw" -> RETENTION
      [] level = "counseling" -> COUNSELING

\* level -> template key
KEY_MAP(level) ==
    CASE level = "urgent_safety" -> "crisis"
      [] level = "title_ix" -> "title_ix"
      [] level = "harassment_hate" -> "conduct"
      [] level = "retention_withdraw" -> "retention"
      [] level = "counseling" -> "counseling"

\* RouteResult(level, auto_reply_key)
RouteResult(level, key) == [level |-> level, auto_reply_key |-> key]

\* route() returning None
NoRoute == RouteResult(None, None)

\* route(message): the first level, in LEVELS order, whose pattern is found
route(message) ==
    LET hit == { i \in 1..Len(LEVELS) : SearchWords(COMPILED(LEVELS[i]), message) } IN
    IF hit = {}
    THEN NoRoute
    ELSE LET first == CHOOSE i \in hit : \A j \in hit : i <= j IN
         RouteResult(LEVELS[first], KEY_MAP(LEVELS[first]))

\* ------------------------------------------------------------- Rules (rules.py)
\* NORMALIZE_MAP, in dict order, keys and values as word sequences.  No
\* word of Vocabulary properly contains a key, so str.replace acts on
\* whole words here.
NORMALIZE_MAP ==
    << <<<<"harrased">>, <<"harassed">>>>,
       <<<<"harrasment">>, <<"harassment">>>>,
       <<<<"harrassment">>, <<"harassment">>>>,
       <<<<"unalive">>, <<"kill", "myself">>>>,
       <<<<"kms">>, <<"kill", "myself">>>>,
       <<<<"kys">>, <<"kill", "myself">>>>,
       <<<<"sucide">>, <<"suicide">>>>,
       <<<<"commited", "suicide">>, <<"committed", "suicide">>>>,
       <<<<"drop", "from", "college">>, <<"drop", "out">>>>,
       <<<<"leave", "uni">>, <<"leave", "university">>>> >>

\* default priority order
DEFAULT_PRIORITY(category) ==
    CASE category = "urgent_safety" -> 1
      [] category = "title_ix" -> 2
      [] category = "harassment_hate" -> 3
      [] category = "retention_withdraw" -> 4
      [] category = "counseling" -> 5
      [] OTHER -> 100

\* t.replace(wrong, right) on word sequences, left to right
RECURSIVE Replace(_, _, _)
Replace(t, wrong, right) ==
    IF Len(t) < Len(wrong)
    THEN t
    ELSE IF SubSeq(t, 1, Len(wrong)) = wrong
         THEN right \o Replace(SubSeq(t, Len(wrong) + 1, Len(t)), wrong, right)
         ELSE <<t[1]>> \o Replace(Tail(t), wrong, right)

\* the replacement loop of normalize over the first n map entries
RECURSIVE NormalizeFrom(_, _)
NormalizeFrom(t, n) ==
    IF n = 0
    THEN t
    ELSE LET prev == NormalizeFrom(t, n - 1) IN
         Replace(prev, NORMALIZE_MAP[n][1], NORMALIZE_MAP[n][2])

\* Rules.normalize
normalize(text) == NormalizeFrom(Lower(text), Len(NORMALIZE_MAP))

\* Rule(category, response_key, patterns, priority)
Rule(category, response_key, patterns, priority) ==
    [category |-> category, response_key |-> response_key,
     patterns |-> patterns, priority |-> priority]

\* the categories of _defaults_dict in dict order
DefaultOrder == LEVELS

\* Rules._defaults_dict: generic harass* is a Title IX trigger here
DefaultsDict ==
    [c \in { LEVELS[i] : i \in 1..Len(LEVELS) } |->
        CASE c = "urgent_safety" ->
                Rule(c, "crisis", URGENCY, DEFAULT_PRIORITY(c))
          [] c = "title_ix" ->
                Rule(c, "title_ix", TITLE_IX \cup { <<w>> : w \in HarassForms },
                     DEFAULT_PRIORITY(c))
          [] c = "harassment_hate" ->
                Rule(c, "conduct", CONDUCT \ { <<w>> : w \in HarassForms },
                     DEFAULT_PRIORITY(c))
          [] c = "retention_withdraw" ->
                Rule(c, "retention", RETENTION, DEFAULT_PRIORITY(c))
          [] c = "counseling" ->
                Rule(c, "counseling", COUNSELING, DEFAULT_PRIORITY(c))]

\* Rules.match over rule set rules whose dict order is order: the first
\* rule, by ascending priority (stable sort), one of whose patterns is found
\* in the normalized text
match(rules, order, text) ==
    LET t == normalize(text)
        hit == { i \in 1..Len(order) : SearchWords(rules[order[i]].patterns, t) }
    IN  IF hit = {}
        THEN <<None, None>>
        ELSE LET first == CHOOSE i \in hit : \A j \in hit :
                              \/ rules[order[i]].priority < rules[order[j]].priority
                              \/ /\ rules[order[i]].priority = rules[order[j]].priority
                                 /\ i <= j
             IN  <<rules[order[first]].category, rules[order[first]].response_key>>

\* ------------------------------------------------------------- DeclineDetector
\* f with g glued to its last word (a \s* that matches the empty string)
Glue(f, g) == SubSeq(f, 1, Len(f) - 1) \o << f[Len(f)] \o g >>

\* f followed by g, apart or closed up
Then(f, g) == { f \o <<g>>, Glue(f, g) }

\* i\s*(?:am|m|'m): the pronoun with its auxiliary (the typographic
\* apostrophe variant is written with the plain apostrophe)
IAm ==
    UNION { Then(<<"i">>, a) : a \in { "am", "m", "'m" } }

\* i\s*(?:do\s*not|don't|dont)
IDoNot ==
    UNION { Then(<<"i">>, a) : a \in { "don't", "dont", "donot" } }
    \cup UNION { Then(f, "not") : f \in Then(<<"i">>, "do") }

\* the service-domain keywords of the explicit-decline pattern and of the
\* fallback heuristic
SERVICE_KEYWORDS ==
    { "counseling", "counselling", "therapy", "doctor", "medical",
      "appointment", "session", "rih", "help", "support" }

\* raw_patterns, except the explicit-decline pattern, as accepted word
\* sequences (a trailing .* accepts anything and is dropped)
DECLINE_PHRASES ==
    { <<"no", "thanks">>, <<"no", "thank">>, <<"no", "thank", "you">>,
      <<"nah">>, <<"nope">> }
    \cup UNION { Then(f, g) : f \in IAm \cup { <<"i">> }, g \in { "good", "fine" } }
    \cup { <<"not", "interested">> }
    \cup { f \o <<"not", "interested">> : f \in IAm }
    \cup UNION { Then(f, g) : f \in IDoNot, g \in { "need", "want" } }
    \cup { <<"any", "other", "option">>, <<"any", "other", "options">>,
           <<"any", "alternative">>, <<"any", "alternatives">>,
           <<"another", "option">>, <<"something", "else">>,
           <<"other", "support">>, <<"other", "resource">>,
           <<"other", "resources">>, <<"other", "campus", "resource">>,
           <<"other", "campus", "resources">> }

\* the explicit-decline pattern: i don't want ... <service keyword>
ExplicitDecline(t) ==
    LET lt == Lower(t) IN
    \E i \in 1..Len(lt) :
        \E n \in 1..(Len(lt) - i + 1) :
            /\ SubSeq(lt, i, i + n - 1) \in UNION { Then(f, "want") : f \in IDoNot }
            /\ \E k \in (i + n)..Len(lt) : lt[k] \in SERVICE_KEYWORDS

\* DeclineDetector.is_decline
is_decline(text) ==
    IF text = <<>>
    THEN FALSE
    ELSE IF Lower(text) \in { <<"no">>, <<"nah">>, <<"nope">> }
    THEN FALSE
    ELSE IF SearchWords(DECLINE_PHRASES, text) \/ ExplicitDecline(text)
    THEN TRUE
    ELSE IF SearchWords({ <<"no">> }, text)
            /\ SearchWords({ <<k>> : k \in SERVICE_KEYWORDS }, text)
    THEN TRUE
    ELSE FALSE

\* ------------------------------------------------------------- Planner
\* _MEDICAL_MARKERS
MEDICAL_MARKERS ==
    { <<"medical">>, <<"doctor">>, <<"nurse">>, <<"immunization">>,
      <<"vaccine">>, <<"shot">> }

\* _APPT_WORDS
APPT_WORDS ==
    { <<"appointment">>, <<"appointments">>, <<"schedule">>,
      <<"scheduling">>, <<"book">>, <<"booking">> }

\* _APPT_AMBIG_WORDS
APPT_AMBIG_WORDS ==
    { <<"session">>, <<"sessions">>, <<"visit">>, <<"intake">>,
      <<"reschedule">>, <<"cancel">>, <<"availability">>, <<"walk-in">>,
      <<"same-day">> }

\* _contains_any
contains_any(text, words) == ContainsAny(Lower(text), words)

\* _has_medical_marker
has_medical_marker(text) == contains_any(text, MEDICAL_MARKERS)

\* an appointment test on the direct scheduling terms only
looks_like_appointment_direct(text) == contains_any(text, APPT_WORDS)

\* _looks_like_appointment
looks_like_appointment(text) ==
    contains_any(text, APPT_WORDS \cup APPT_AMBIG_WORDS)

\* a Python value used as a query: a string, or some other object of which
\* only the truth value matters
StrVal(t) == [type |-> "str", truthy |-> (t # <<>>), s |-> t]

ObjVal(truthy) == [type |-> "obj", truthy |-> truthy, s |-> <<>>]

\* a step's "input": a dict with or without a "query" key, or not a dict
NoQueryInput == [isdict |-> TRUE, hasq |-> FALSE, q |-> ObjVal(FALSE)]

QueryInput(v) == [isdict |-> TRUE, hasq |-> TRUE, q |-> v]

NonDictInput == [isdict |-> FALSE, hasq |-> FALSE, q |-> ObjVal(FALSE)]

\* PlanStep {"tool": tool, "input": input}
PlanStep(tool, input) == [tool |-> tool, input |-> input]

\* the clarify step of the rule planner (its input carries kind, question
\* and options, and no query)
ClarifyStep == PlanStep("clarify", NoQueryInput)

\* a rule planner that hands the lower-cased text to its retrieve steps
plan_lowered_query(route_level, user_text) ==
    IF route_level = "urgent_safety"
    THEN << PlanStep("crisis", NoQueryInput) >>
    ELSE IF route_level \in { "title_ix", "harassment_hate",
                              "retention_withdraw", "counseling" }
    THEN IF /\ route_level = "counseling"
            /\ looks_like_appointment(user_text)
            /\ ~has_medical_marker(user_text)
         THEN << ClarifyStep,
                 PlanStep("retrieve", QueryInput(StrVal(Lower(user_text)))) >>
         ELSE << PlanStep(IF route_level = "retention_withdraw"
                          THEN "retention" ELSE route_level, NoQueryInput) >>
    ELSE IF looks_like_appointment(user_text) /\ ~has_medical_marker(user_text)
    THEN << ClarifyStep,
            PlanStep("retrieve", QueryInput(StrVal(Lower(user_text)))) >>
    ELSE << PlanStep("retrieve", QueryInput(StrVal(Lower(user_text)))) >>

\* Planner.plan
plan(route_level, user_text) ==
    IF route_level = "urgent_safety"
    THEN << PlanStep("crisis", NoQueryInput) >>
    ELSE IF route_level \in { "title_ix", "harassment_hate",
                              "retention_withdraw", "counseling" }
    THEN IF /\ route_level = "counseling"
            /\ looks_like_appointment(user_text)
            /\ ~has_medical_marker(user_text)
         THEN << ClarifyStep,
                 PlanStep("retrieve", QueryInput(StrVal(user_text))) >>
         ELSE << PlanStep(IF route_level = "retention_withdraw"
                          THEN "retention" ELSE route_level, NoQueryInput) >>
    ELSE IF looks_like_appointment(user_text) /\ ~has_medical_marker(user_text)
    THEN << ClarifyStep,
            PlanStep("retrieve", QueryInput(StrVal(user_text))) >>
    ELSE << PlanStep("retrieve", QueryInput(StrVal(user_text))) >>

\* ------------------------------------------------------------- LLMPlanner
\* the whitelist the dispatcher gives the LLM planner
ALLOWED_TOOLS ==
    { "retrieve", "clarify", "counseling", "title_ix", "conduct", "retention" }

\* What llm_fn hands back: it raises (or is not configured), returns text
\* that is not JSON, or returns JSON data.  Of JSON data only the parts the
\* planner looks at are kept: whether it is a list, and for each element
\* whether it is a dict, its "tool" (None when absent), and its "input".
Payload(kind, islist, items) == [kind |-> kind, islist |-> islist, items |-> items]

\* one element of the JSON list
Item(isdict, tool, hasinput, input) ==
    [isdict |-> isdict, tool |-> tool, hasinput |-> hasinput, input |-> input]

\* the result of a planner call: a plan, or an exception
Planned(steps) == [ok |-> TRUE, steps |-> steps]

PlannerError == [ok |-> FALSE, steps |-> <<>>]

\* a planner that accepts the first step whatever its tool and input are
llm_plan_unvalidated(payload, user_text) ==
    IF payload.kind # "json"
    THEN PlannerError
    ELSE IF ~payload.islist \/ payload.items = <<>>
    THEN PlannerError
    ELSE IF ~payload.items[1].isdict
    THEN PlannerError
    ELSE Planned(<< PlanStep(payload.items[1].tool,
                             IF payload.items[1].hasinput /\ payload.items[1].input.isdict
                             THEN payload.items[1].input ELSE NoQueryInput) >>)

\* LLMPlanner.plan, given what llm_fn returned
llm_plan(payload, user_text) ==
    IF payload.kind # "json"
    THEN PlannerError
    ELSE IF ~payload.islist \/ payload.items = <<>>
    THEN PlannerError
    ELSE LET step == payload.items[1] IN
         IF ~step.isdict
         THEN PlannerError
         ELSE IF step.tool \notin ALLOWED_TOOLS
         THEN PlannerError
         ELSE IF ~step.hasinput \/ ~step.input.isdict
         THEN PlannerError
         ELSE IF step.tool = "retrieve" /\ ~step.input.hasq
         THEN Planned(<< PlanStep("retrieve", QueryInput(StrVal(user_text))) >>)
         ELSE Planned(<< PlanStep(step.tool, step.input) >>)

\* ------------------------------------------------------------- clarify heuristics
\* the markers _should_auto_clarify looks for
LEGACY_MARKERS ==
    { <<"medical">>, <<"doctor">>, <<"nurse">>, <<"immunization">>,
      <<"vaccine">>, <<"shot">>, <<"counseling">>, <<"counselling">>,
      <<"therapy">>, <<"therapist">> }

\* a legacy heuristic that does not look for the markers
should_auto_clarify_unmarked(user_text) == In(<<"appointment">>, Lower(user_text))

\* _should_auto_clarify (legacy heuristic)
should_auto_clarify(user_text) ==
    LET t == Lower(user_text) IN
    IF ~In(<<"appointment">>, t)
    THEN FALSE
    ELSE IF ~ContainsAny(t, LEGACY_MARKERS)
    THEN TRUE
    ELSE FALSE

\* ClarifyDetector.intent_markers
intent_markers ==
    { <<"appointment">>, <<"appointments">>, <<"schedule">>,
      <<"scheduling">>, <<"reschedule">>, <<"cancel">>, <<"session">>,
      <<"sessions">>, <<"book">>, <<"availability">>, <<"available">>,
      <<"today">>, <<"same-day">>, <<"same", "day">> }

\* ClarifyDetector.medical_markers
medical_markers ==
    { <<"medical">>, <<"doctor">>, <<"nurse">>, <<"immunization">>,
      <<"vaccine">>, <<"shot">>, <<"flu">>, <<"tetanus">>, <<"hpv">>,
      <<"mmr">>, <<"tb">>, <<"lab">>, <<"testing">> }

\* ClarifyDetector.counseling_markers
counseling_markers ==
    { <<"counseling">>, <<"counselling">>, <<"therapy">>, <<"therapist">>,
      <<"counselor">>, <<"group">>, <<"support", "group">>, <<"workshop">> }

\* ClarifyDetector.exclusion_terms
exclusion_terms ==
    { <<"suicide">>, <<"self-harm">>, <<"kill", "myself">>, <<"kms">>,
      <<"kys">>, <<"unalive">>, <<"assault">>, <<"harass">>, <<"harassed">>,
      <<"harassment">>, <<"non-consensual">>, <<"title", "ix">>,
      <<"bias", "incident">>, <<"report", "bias">>, <<"withdraw">>,
      <<"leave", "of", "absence">> }

\* ClarifyDetector.should_clarify(user_text)["consider"]
should_clarify(user_text) ==
    LET t == Lower(user_text) IN
    IF t = <<>>
    THEN FALSE
    ELSE IF ContainsAny(t, exclusion_terms)
    THEN FALSE
    ELSE IF ~ContainsAny(t, intent_markers)
    THEN FALSE
    ELSE LET mentions_med == ContainsAny(t, medical_markers)
             mentions_coun == ContainsAny(t, counseling_markers)
         IN  IF ~mentions_med /\ ~mentions_coun
             THEN TRUE
             ELSE IF mentions_med /\ mentions_coun
             THEN TRUE
             ELSE FALSE

\* Dispatcher.respond._decide_clarify
decide_clarify(v2_enabled, msg) ==
    IF v2_enabled THEN should_clarify(msg) ELSE should_auto_clarify(msg)

\* ------------------------------------------------------------- retriever
\* a knowledge chunk; url is "" when the record has none
Chunk(id, text, title, category, url) ==
    [id |-> id, text |-> text, title |-> title, category |-> category, url |-> url]

\* the corpora a process may find in KB_DIR: none, or two chunks
Corpora ==
    { <<>>,
      << Chunk(1, <<"book", "appointment", "portal">>, <<"appointment">>,
               <<"general">>, "u1"),
         Chunk(2, <<"therapy", "workshop">>, <<"workshop">>,
               <<"counseling">>, "") >> }

\* _STOPWORDS
STOPWORDS ==
    { "the", "a", "an", "and", "or", "of", "to", "for", "in", "on", "at", "by",
      "with", "from", "is", "are", "was", "were", "be", "being", "been", "it",
      "this", "that", "these", "those", "you", "your", "we", "our", "us",
      "they", "their", "i", "call", "page", "hours", "location", "campus",
      "service", "services" }

\* _tokens(s): the words are alphanumeric, so each is one token
tokens(s) == SelectSeq(Lower(s), LAMBDA w : w \notin STOPWORDS)

\* len(t) > 2, for the words of texts and chunks
LongToken(w) == w \notin { "no", "a", "i", "to", "of", "in", "on", "at", "by", "is", "it", "we", "us" }

\* the tokens of a chunk's text, title and category
ChunkTokens(c) ==
    LET all == tokens(c.text) \o tokens(c.title) \o tokens(c.category) IN
    { all[i] : i \in 1..Len(all) }

\* df[t] of _build_idf
DocFreq(items, t) == Cardinality({ i \in 1..Len(items) : t \in ChunkTokens(items[i]) })

\* 1000 * ln((N - d + 0.5) / (d + 0.5) + 1), rounded, for corpora of at
\* most three chunks
IdfMilli(N, d) ==
    CASE N = 1 /\ d = 1 -> 288
      [] N = 2 /\ d = 1 -> 693
      [] N = 2 /\ d = 2 -> 182
      [] N = 3 /\ d = 1 -> 981
      [] N = 3 /\ d = 2 -> 470
      [] N = 3 /\ d = 3 -> 134

\* _idf.get(t, 0.0) for a token found in d of N chunks
IdfOf(N, d) == IF d = 0 THEN 0 ELSE IdfMilli(N, d)

\* _idf.get(t, 0.0) after _build_idf(items)
Idf(items, t) == IdfOf(Len(items), DocFreq(items, t))

\* field.count(t): each word holds a token at most once
CountIn(field, t) == Cardinality({ i \in 1..Len(field) : SubstrOfWord(t, Lower(field)[i]) })

\* the sum of f[i] over i in 1..n
RECURSIVE SumTo(_, _)
SumTo(f, n) == IF n = 0 THEN 0 ELSE f[n] + SumTo(f, n - 1)

\* the 0.5 phrase bonus, in thousandths
PHRASE_BONUS == 500

\* the number of times t is among the query tokens toks
Occurrences(toks, t) == Cardinality({ i \in 1..Len(toks) : toks[i] = t })

\* the two loops of _score over the query tokens: a token counts once per
\* field occurrence in the term-frequency loop, and the sum runs over every
\* token again
Weighted(items, toks, c) ==
    SumTo([i \in 1..Len(toks) |->
              Idf(items, toks[i]) * Occurrences(toks, toks[i])
              * (CountIn(c.text, toks[i]) + 2 * CountIn(c.title, toks[i])
                 + CountIn(c.category, toks[i]))],
          Len(toks))

\* the phrase bonus of _score for the non-stopword words of the query
Bonus(words, c) ==
    IF Len(words) >= 2 /\ Len(words) <= 4 /\ In(words, Lower(c.text))
    THEN PHRASE_BONUS
    ELSE 0

\* _score(query, c) for a string query, in thousandths
score(items, query, c) ==
    IF query = <<>> \/ SelectSeq(tokens(query), LongToken) = <<>>
    THEN 0
    ELSE Weighted(items, SelectSeq(tokens(query), LongToken), c)
         + Bonus(SelectSeq(Lower(query), LAMBDA w : w \notin STOPWORDS), c)

\* the result of a call that may raise
Returned(v) == [raised |-> FALSE, value |-> v]

Raised == [raised |-> TRUE, value |-> <<>>]

\* the items at positions left, best score first, ties in corpus order
\* (list.sort is stable)
RECURSIVE Ranked(_, _, _)
Ranked(items, scores, left) ==
    IF left = {}
    THEN <<>>
    ELSE LET best == CHOOSE i \in left : \A j \in left :
                        \/ scores[i] > scores[j]
                        \/ scores[i] = scores[j] /\ i <= j
         IN  <<items[best]>> \o Ranked(items, scores, left \ {best})

\* ranked[:limit]
FirstN(ranked, limit) ==
    SubSeq(ranked, 1, IF Len(ranked) < limit THEN Len(ranked) ELSE limit)

\* the items with a positive score, sorted, and cut to limit
TopScored(items, scores, limit) ==
    FirstN(Ranked(items, scores, { i \in 1..Len(items) : scores[i] > 0 }), limit)

\* retrieve(query, top_k=top_k) over corpus items.  A query that is not a
\* string reaches (query or "").lower() in _score: a truthy one raises
\* AttributeError, a falsy one scores as the empty string.
retrieve(items, query, top_k) ==
    IF items = <<>>
    THEN Returned(<<>>)
    ELSE IF query.type # "str" /\ query.truthy
    THEN Raised
    ELSE Returned(TopScored(items,
                            [i \in 1..Len(items) |->
                                score(items, IF query.type = "str" THEN query.s ELSE <<>>,
                                      items[i])],
                            IF top_k < 1 THEN 1 ELSE top_k))

\* ------------------------------------------------------------- compose
\* One line of output text.  A text is a sequence of lines.
Line(kind, n, id) == [kind |-> kind, n |-> n, id |-> id]

\* an empty line
Blank == Line("", 0, 0)

\* TEMPLATES
TEMPLATE_KEYS == { "crisis", "title_ix", "conduct", "retention", "counseling" }

\* render_template(key) / template_for(key)
template_for(key) ==
    IF key \in TEMPLATE_KEYS
    THEN << Line("template " \o key, 0, 0) >>
    ELSE << Line("I'll point you to the right campus resource.", 0, 0) >>

\* crisis_message()
crisis_message == template_for("crisis")

\* safe_alternatives()
safe_alternatives == << Line("alternatives: other UMBC resources", 0, 0) >>

\* compose_answer / from_chunks
from_chunks(chunks) ==
    IF chunks = <<>>
    THEN << Line("I couldn't find a specific page in the knowledge base yet.", 0, 0) >>
    ELSE LET n == IF Len(chunks) < 3 THEN Len(chunks) ELSE 3 IN
         << Line("Here's what I found:", 0, 0) >>
         \o [i \in 1..n |-> Line("snippet", i, chunks[i].id)]
         \o << Blank, Line("Sources:", 0, 0) >>
         \o [i \in 1..n |-> Line(IF chunks[i].url # "" THEN "source with url"
                                 ELSE "source", i, chunks[i].id)]

\* "\n\n".join(p for p in parts if p)
RECURSIVE JoinParts(_)
JoinParts(parts) ==
    IF parts = <<>>
    THEN <<>>
    ELSE IF parts[1] = <<>>
    THEN JoinParts(Tail(parts))
    ELSE LET rest == JoinParts(Tail(parts)) IN
         IF rest = <<>> THEN parts[1] ELSE parts[1] \o <<Blank>> \o rest

\* ------------------------------------------------------------- tool runners
\* the hit count _exec_tool reports for a tool that does not retrieve
NO_HITS == -1

\* what _exec_tool returns: (text, hits)
ToolResult(text, hits) == [text |-> text, hits |-> hits]

\* (from_chunks(hits), len(hits)), or the exception retrieve raised
Composed(hits) ==
    IF hits.raised
    THEN Raised
    ELSE Returned(ToolResult(from_chunks(hits.value), Len(hits.value)))

\* _run_retrieve(user_text) over corpus items
run_retrieve(items, query) == Composed(retrieve(items, query, 3))

\* _run_clarify
run_clarify == << Line("Just to clarify: counseling or medical appointment?", 0, 0) >>

\* a tool execution that raises on a tool name it does not know
exec_tool_strict(items, tool, user_text, step_input) ==
    IF tool = "retrieve"
    THEN run_retrieve(items, IF step_input.hasq THEN step_input.q ELSE StrVal(user_text))
    ELSE IF tool \in { "counseling", "title_ix", "conduct", "retention" }
    THEN Returned(ToolResult(template_for(tool), NO_HITS))
    ELSE IF tool = "clarify"
    THEN Returned(ToolResult(run_clarify, NO_HITS))
    ELSE Raised

\* _exec_tool(tool, user_text, step_input) over corpus items
exec_tool(items, tool, user_text, step_input) ==
    IF tool = "retrieve"
    THEN run_retrieve(items, IF step_input.hasq THEN step_input.q ELSE StrVal(user_text))
    ELSE IF tool \in { "counseling", "title_ix", "conduct", "retention" }
    THEN Returned(ToolResult(template_for(tool), NO_HITS))
    ELSE IF tool = "clarify"
    THEN Returned(ToolResult(run_clarify, NO_HITS))
    ELSE run_retrieve(items, StrVal(user_text))

\* ------------------------------------------------------------- trace events
\* One record shape for all events; a field an event does not carry holds
\* None (hits: NO_HITS, flags: FALSE, steps: the empty plan).
Event(event, level, planner, steps, name, hits, auto, retry) ==
    [event |-> event, level |-> level, planner |-> planner, steps |-> steps,
     name |-> name, hits |-> hits, auto |-> auto, retry |-> retry]

RouteEvent(level) == Event("route", level, None, <<>>, None, NO_HITS, FALSE, FALSE)

DeclineEvent == Event("decline", None, None, <<>>, None, NO_HITS, FALSE, FALSE)

SpellEvent == Event("spell_correct", None, None, <<>>, None, NO_HITS, FALSE, FALSE)

PlanEvent(planner, steps) == Event("plan", None, planner, steps, None, NO_HITS, FALSE, FALSE)

ToolEvent(name, hits) ==
    Event("tool", None, None, <<>>, name, IF hits >= 0 THEN hits ELSE NO_HITS, FALSE, FALSE)

AutoClarifyEvent == Event("tool", None, None, <<>>, "clarify", NO_HITS, TRUE, FALSE)

RetryEvent(hits) == Event("tool", None, None, <<>>, "retrieve", hits, FALSE, TRUE)

EnhanceEvent == Event("enhance", None, None, <<>>, None, NO_HITS, FALSE, FALSE)

\* ------------------------------------------------------------- collaborators
\* What the spelling corrector may do: raise, or return (text, meta) where
\* text is any value and meta may or may not be a dict
SpellResult(kind, text, metaok) == [kind |-> kind, text |-> text, metaok |-> metaok]

\* no call of the corrector is being consumed
NoSpellResult == SpellResult("none", ObjVal(FALSE), TRUE)

\* the rewritten texts a corrector returns
CorrectedTexts == { <<"workshop">> }

SpellOutcomes(text) ==
    { SpellResult("raise", ObjVal(FALSE), TRUE) }
    \cup { SpellResult("value", v, m) :
             v \in { ObjVal(TRUE), StrVal(<<>>), StrVal(text) }
                   \cup { StrVal(c) : c \in CorrectedTexts },
             m \in BOOLEAN }

\* the query texts an LLM puts into a retrieve step
LLMQueries == { <<"appointment">> }

\* no answer of the external planner is being consumed
NoPayload == Payload("none", FALSE, <<>>)

\* the answers of llm_fn
LLMPayloads ==
    { Payload("raise", FALSE, <<>>), Payload("badjson", FALSE, <<>>),
      Payload("json", FALSE, <<>>), Payload("json", TRUE, <<>>),
      Payload("json", TRUE, << Item(FALSE, None, FALSE, NonDictInput) >>),
      Payload("json", TRUE, << Item(TRUE, "crisis", TRUE, NoQueryInput) >>),
      Payload("json", TRUE, << Item(TRUE, None, TRUE, NoQueryInput) >>),
      Payload("json", TRUE, << Item(TRUE, "retrieve", FALSE, NonDictInput) >>),
      Payload("json", TRUE, << Item(TRUE, "retrieve", TRUE, NonDictInput) >>) }
    \cup { Payload("json", TRUE, << Item(TRUE, t, TRUE, NoQueryInput) >>) :
             t \in ALLOWED_TOOLS }
    \cup { Payload("json", TRUE, << Item(TRUE, "retrieve", TRUE, QueryInput(v)) >>) :
             v \in { ObjVal(TRUE), ObjVal(FALSE) } \cup { StrVal(q) : q \in LLMQueries } }
    \cup { Payload("json", TRUE, << Item(TRUE, "clarify", TRUE, NoQueryInput),
                                    Item(TRUE, "crisis", TRUE, NoQueryInput) >>) }

\* the steps an injected planner (a stand-in for the LLM planner) uses
InjectedSteps == { PlanStep("retrieve", NoQueryInput), PlanStep("bogus", NoQueryInput) }

\* the plans an injected planner returns: any two first steps, and bogus
\* steps after them
InjectedPlans ==
    { p \in UNION { [1..k -> InjectedSteps] : k \in 0..MaxPlanLen } :
        \A i \in 3..Len(p) : p[i].tool = "bogus" }

\* what an injected planner does: it raises, or returns a plan
InjectedAnswers ==
    { Payload("raise", FALSE, <<>>) } \cup { Payload("plan", TRUE, p) : p \in InjectedPlans }

\* the answers the configured external planner may get or give
ExternalAnswers(planner) ==
    IF planner = "LLMPlanner" THEN LLMPayloads ELSE InjectedAnswers

\* planner.plan(route_level, user_text) of the external planner, given
\* its answer
external_plan(planner, answer, text) ==
    IF planner = "LLMPlanner"
    THEN llm_plan(answer, text)
    ELSE IF answer.kind = "plan" THEN Planned(answer.items) ELSE PlannerError

\* what the enhancer may do: raise, or return a non-string, an empty
\* string, the same text, or another text
EnhanceOutcomes == { "raise", "nonstring", "empty", "same", "changed" }

\* the text an enhancer that rewrites returns
Enhanced(text) == text \o << Line("[EH]", 0, 0) >>

\* ------------------------------------------------------------- state
VARIABLES
    mode,                \* Dispatcher.mode: "RULE" or "LLM"
    llm_planner,         \* what _get_llm_planner returns: "LLMPlanner" or "injected"
    clarify_v2_enabled,  \* Dispatcher._clarify_v2_enabled
    spell_enabled,       \* Dispatcher._spell_enabled
    kb,                  \* the corpus in KB_DIR
    by_category,         \* Rules.by_category
    pc,                  \* position of the respond call in progress
    user_text,           \* respond's argument
    r,                   \* the RouteResult of the call
    matched,             \* what Rules.match returned for user_text
    spell_answer,        \* what the corrector did, until the planner is chosen
    query_text,          \* the text handed to planner and tools
    ext_answer,          \* what the external planner got, until the plan runs
    steps,               \* the plan
    executed,            \* the number of plan steps executed
    out_parts,           \* the texts of the executed steps
    trace,               \* Dispatcher.trace
    result,              \* the {text, trace} respond returned
    cached_kb,           \* retriever._cached_kb
    idf,                 \* retriever._idf
    query,               \* the query the retrieve calls are made with
    top_k,               \* the top_k the retrieve calls are made with
    found,               \* what the last retrieve call returned
    op,                  \* the last operation on the retriever module
    th_pc,               \* position of each thread inside retrieve
    th_todo,             \* the tokens each thread's _build_idf has yet to store
    th_seen,             \* the index each thread scored against
    lists,               \* the trace lists, by creator (0: __init__, c: call c)
    self_trace,          \* the list Dispatcher.trace is bound to
    call_pc,             \* position of each concurrent respond call
    call_text,           \* each concurrent call's user_text
    call_result,         \* what each concurrent call returned; its trace names a list
    csv_rows,            \* the rows of the routing matrix file
    fn,                  \* the function _call_with_timeout wraps: duration, outcome
    timeout_s,           \* the timeout_s of the _call_with_timeout call
    elapsed,             \* the time since the call, in ticks
    caller_pc,           \* position of the caller inside _call_with_timeout
    worker_done,         \* whether the executor's worker thread has ended
    returned             \* what _call_with_timeout returned

vars == << mode, llm_planner, clarify_v2_enabled, spell_enabled, kb, by_category,
           pc, user_text, r, matched, spell_answer, query_text, ext_answer, steps,
           executed, out_parts, trace, result,
           cached_kb, idf, query, top_k, found, op, th_pc, th_todo, th_seen,
           lists, self_trace, call_pc, call_text, call_result, csv_rows,
           fn, timeout_s, elapsed, caller_pc, worker_done, returned >>

\* the locals and the trace of one respond call
locals == << pc, user_text, r, matched, spell_answer, query_text, ext_answer, steps,
             executed, out_parts, trace, result >>

threads == << th_pc, th_todo, th_seen >>

calls == << lists, self_trace, call_pc, call_text, call_result >>

timed == << fn, timeout_s, elapsed, caller_pc, worker_done, returned >>

\* the state outside one respond call on one Dispatcher
aside == << cached_kb, idf, query, top_k, found, op, threads, calls, csv_rows, timed >>

config == << mode, llm_planner, clarify_v2_enabled, spell_enabled, kb, by_category >>

\* respond's return value
Result(text, tr) == [text |-> text, trace |-> tr]

NoResult == Result(<<>>, <<>>)

\* _cached_kb = None
NotLoaded == [loaded |-> FALSE, items |-> <<>>]

\* _idf = None
NoIndex == [built |-> FALSE, w |-> [t \in {} |-> 0]]

\* the module globals of retriever.py at import, before any call
InitModule ==
    /\ cached_kb = NotLoaded
    /\ idf = NoIndex
    /\ found = <<>>
    /\ op = "import"

\* two threads, or two calls, at a time
Threads == { 1, 2 }

\* no thread is inside retrieve
InitThreads ==
    /\ th_pc = [t \in Threads |-> "idle"]
    /\ th_todo = [t \in Threads |-> {}]
    /\ th_seen = [t \in Threads |-> NoIndex]

\* self.trace = [] of Dispatcher.__init__ (list 0), and no call yet
InitCalls ==
    /\ lists = [c \in { 0 } \cup Threads |-> <<>>]
    /\ self_trace = 0
    /\ call_pc = [c \in Threads |-> "idle"]
    /\ call_text = [c \in Threads |-> <<>>]
    /\ call_result = [c \in Threads |-> Result(<<>>, 0)]

\* no call of _call_with_timeout
InitTimed ==
    /\ fn = [duration |-> 0, outcome |-> "None"]
    /\ timeout_s = 1
    /\ elapsed = 0
    /\ caller_pc = "idle"
    /\ worker_done = FALSE
    /\ returned = "None"

\* the state outside the respond call, where a specification leaves it alone
InitAside ==
    /\ InitModule
    /\ query = <<>>
    /\ top_k = 0
    /\ InitThreads
    /\ InitCalls
    /\ csv_rows = <<>>
    /\ InitTimed

\* Dispatcher.__init__ under every configuration, before any call
InitConfig ==
    /\ mode \in { "RULE", "LLM" }
    /\ llm_planner \in { "LLMPlanner", "injected" }
    /\ mode = "RULE" => llm_planner = "LLMPlanner"
    /\ clarify_v2_enabled \in BOOLEAN
    /\ spell_enabled \in BOOLEAN
    /\ kb \in Corpora
    /\ by_category = DefaultsDict

InitLocals ==
    /\ user_text = <<>>
    /\ r = NoRoute
    /\ matched = <<None, None>>
    /\ spell_answer = NoSpellResult
    /\ query_text = <<>>
    /\ ext_answer = NoPayload
    /\ steps = <<>>
    /\ executed = 0
    /\ out_parts = <<>>
    /\ trace = <<>>
    /\ result = NoResult

Init ==
    /\ InitConfig
    /\ InitLocals
    /\ InitAside
    /\ pc = "idle"

\* a crisis test on the level name
is_crisis_by_level(rr) == rr # NoRoute /\ rr.level = "crisis"

\* the crisis test of respond, line 135
is_crisis(rr) == rr # NoRoute /\ rr.auto_reply_key = "crisis"

\* respond, lines 126-136: reset the trace, route the original text, record
\* the route event, and return the crisis template on a crisis key.  A call
\* keeps nothing of the call before it but Dispatcher.trace, which it
\* rebinds first; calls after the first are the caller repeating its text.
Respond(text) ==
    /\ pc \in { "idle", "done", "raised" }
    /\ user_text' = text
    /\ r' = route(text)
    /\ trace' = << RouteEvent(r'.level) >>
    /\ spell_answer' = NoSpellResult
    /\ query_text' = <<>>
    /\ ext_answer' = NoPayload
    /\ steps' = <<>>
    /\ executed' = 0
    /\ out_parts' = <<>>
    /\ IF is_crisis(r')
       THEN /\ result' = Result(crisis_message, trace')
            /\ pc' = "done"
       ELSE /\ result' = NoResult
            /\ pc' = "decline"
    /\ UNCHANGED << config, aside, matched >>

\* a decline test that lets only unrouted text through
decline_gate_unrouted(route_level, text) == route_level = None /\ is_decline(text)

\* the decline test of respond, line 140
decline_gate(route_level, text) == route_level # "crisis" /\ is_decline(text)

\* _APPT_OR_GROUP_MARKERS
APPT_OR_GROUP_MARKERS ==
    { <<"appointment">>, <<"appointments">>, <<"schedule">>,
      <<"scheduling">>, <<"reschedule">>, <<"cancel">>, <<"session">>,
      <<"sessions">>, <<"workshop">>, <<"support", "group">>,
      <<"group", "counseling">>, <<"groups">>, <<"availability">>,
      <<"available">> }

\* counseling_needs_plan
counseling_needs_plan(route_level, text) ==
    route_level = "counseling" /\ ContainsAny(Lower(text), APPT_OR_GROUP_MARKERS)

\* a short-circuit that takes every routed text
short_circuit_any_route(rr, text) == rr # NoRoute

\* the short-circuit condition of respond, lines 171-174
short_circuit(rr, text) ==
    /\ rr # NoRoute
    /\ \/ rr.level # "counseling"
       \/ rr.level = "counseling" /\ ~counseling_needs_plan(rr.level, text)

\* a decline check placed after the template short-circuit
decline_after_template ==
    /\ pc = "decline"
    /\ IF short_circuit(r, user_text)
       THEN /\ result' = Result(template_for(r.auto_reply_key), trace)
            /\ pc' = "done"
            /\ UNCHANGED trace
       ELSE IF decline_gate(r.level, user_text)
       THEN /\ trace' = Append(trace, DeclineEvent)
            /\ result' = Result(safe_alternatives, trace')
            /\ pc' = "done"
       ELSE /\ pc' = "template"
            /\ UNCHANGED << trace, result >>
    /\ UNCHANGED << config, aside, user_text, r, matched, spell_answer, query_text,
                    ext_answer, steps, executed, out_parts >>

\* respond, lines 138-143: the decline check
DeclineCheck ==
    /\ pc = "decline"
    /\ IF decline_gate(r.level, user_text)
       THEN /\ trace' = Append(trace, DeclineEvent)
            /\ result' = Result(safe_alternatives, trace')
            /\ pc' = "done"
       ELSE /\ pc' = "template"
            /\ UNCHANGED << trace, result >>
    /\ UNCHANGED << config, aside, user_text, r, matched, spell_answer, query_text,
                    ext_answer, steps, executed, out_parts >>

\* respond, lines 145-175: the template short-circuit
TemplateCheck ==
    /\ pc = "template"
    /\ IF short_circuit(r, user_text)
       THEN /\ result' = Result(template_for(r.auto_reply_key), trace)
            /\ pc' = "done"
       ELSE /\ pc' = "spell"
            /\ UNCHANGED result
    /\ UNCHANGED << config, aside, user_text, r, matched, spell_answer, query_text,
                    ext_answer, steps, executed, out_parts, trace >>

\* a query text that takes any string the corrector returns
spell_query_unchecked(text, o) ==
    IF o.kind = "value" /\ o.text.type = "str" THEN o.text.s ELSE text

\* the query text after one answer of the corrector: the corrected text
\* when it is a non-blank string other than the original and building the
\* spell_correct event did not raise, else the original
spell_query(text, o) ==
    IF /\ o.kind = "value"
       /\ o.text.type = "str"
       /\ o.text.s # <<>>
       /\ o.text.s # text
       /\ o.metaok
    THEN o.text.s
    ELSE text

\* respond, lines 177-197: the optional spelling pass
SpellPass ==
    /\ pc = "spell"
    /\ IF spell_enabled
       THEN \E o \in SpellOutcomes(user_text) :
               /\ spell_answer' = o
               /\ query_text' = spell_query(user_text, o)
               /\ trace' = IF query_text' # user_text
                           THEN Append(trace, SpellEvent)
                           ELSE trace
       ELSE /\ query_text' = user_text
            /\ UNCHANGED << trace, spell_answer >>
    /\ pc' = "plan"
    /\ UNCHANGED << config, aside, user_text, r, matched, ext_answer, steps, executed,
                    out_parts, result >>

\* respond, lines 199-224: plan selection with fallback to the rule planner
PlanSelect ==
    /\ pc = "plan"
    /\ IF mode = "LLM"
       THEN \E a \in ExternalAnswers(llm_planner) :
               LET o == external_plan(llm_planner, a, query_text) IN
               /\ ext_answer' = a
               /\ IF o.ok
                  THEN /\ steps' = o.steps
                       /\ trace' = Append(trace, PlanEvent("llm", steps'))
                  ELSE /\ steps' = plan(r.level, query_text)
                       /\ trace' = Append(trace, PlanEvent("rule_fallback", steps'))
       ELSE /\ steps' = plan(r.level, query_text)
            /\ trace' = Append(trace, PlanEvent("rule", steps'))
            /\ UNCHANGED ext_answer
    /\ spell_answer' = NoSpellResult
    /\ executed' = 0
    /\ out_parts' = <<>>
    /\ pc' = IF steps' = <<>> THEN "enhance" ELSE "exec"
    /\ UNCHANGED << config, aside, user_text, r, matched, query_text, result >>

\* steps[:3]
FirstThree(plan_steps) == SubSeq(plan_steps, 1, IF Len(plan_steps) < 3 THEN Len(plan_steps) ELSE 3)

\* steps[:2]
FirstTwo(plan_steps) == SubSeq(plan_steps, 1, IF Len(plan_steps) < 2 THEN Len(plan_steps) ELSE 2)

\* an auto-recovery condition that does not look at the step count
auto_recover_any_step(n, tool, hits, v2_enabled, text) ==
    /\ tool = "retrieve"
    /\ hits = 0
    /\ decide_clarify(v2_enabled, text)

\* the auto-recovery condition of respond, lines 247-252
auto_recover(n, tool, hits, v2_enabled, text) ==
    /\ n = 1
    /\ tool = "retrieve"
    /\ hits = 0
    /\ decide_clarify(v2_enabled, text)

\* an auto-recovery that goes on with the plan's second step
recover_without_break(parts, tr, retried) ==
    /\ out_parts' = parts \o << run_clarify, retried.value.text >>
    /\ trace' = tr \o << AutoClarifyEvent, RetryEvent(retried.value.hits) >>
    /\ pc' = IF executed' < Len(FirstTwo(steps)) THEN "exec" ELSE "enhance"

\* respond, lines 253-270: the auto-recovery after the first retrieve,
\* given what the retry of the retrieve returned
Recover(parts, tr, retried) ==
    /\ out_parts' = parts \o << run_clarify, retried.value.text >>
    /\ trace' = tr \o << AutoClarifyEvent, RetryEvent(retried.value.hits) >>
    /\ pc' = "enhance"

\* respond, lines 232-270: the rest of one loop iteration, given what
\* _exec_tool did
AfterTool(tool, res) ==
    IF res.raised
    THEN /\ pc' = "raised"
         /\ UNCHANGED << executed, out_parts, trace >>
    ELSE /\ executed' = executed + 1
         /\ IF auto_recover(executed', tool, res.value.hits, clarify_v2_enabled, user_text)
            THEN Recover(Append(out_parts, res.value.text),
                         Append(trace, ToolEvent(tool, res.value.hits)),
                         exec_tool(kb, "retrieve", query_text, QueryInput(StrVal(query_text))))
            ELSE /\ out_parts' = Append(out_parts, res.value.text)
                 /\ trace' = Append(trace, ToolEvent(tool, res.value.hits))
                 /\ pc' = IF executed' < Len(FirstTwo(steps)) THEN "exec" ELSE "enhance"

\* respond, lines 230-232: the tool and input of a step, and its execution
RunStep(step) ==
    AfterTool(step.tool,
              exec_tool(kb, step.tool, query_text,
                        IF step.input.isdict THEN step.input ELSE NoQueryInput))

\* respond, lines 229-270: one iteration of the execution loop, with the
\* auto-recovery (clarify, retry retrieve, break) when its condition holds
ExecStep ==
    /\ pc = "exec"
    /\ executed < Len(FirstTwo(steps))
    /\ RunStep(FirstTwo(steps)[executed + 1])
    /\ ext_answer' = NoPayload
    /\ UNCHANGED << config, aside, user_text, r, matched, spell_answer, query_text, steps, result >>

\* a final text that takes an empty answer of the enhancer
enhance_text_unchecked(final_text, o) ==
    IF o = "changed" THEN Enhanced(final_text)
    ELSE IF o = "empty" THEN <<>>
    ELSE final_text

\* the final text after one outcome of the enhancer
enhance_text(final_text, o) ==
    IF o = "changed" THEN Enhanced(final_text) ELSE final_text

\* respond, lines 272-295: assemble the text, run the enhancer, return
Finish ==
    /\ pc = "enhance"
    /\ \E o \in EnhanceOutcomes :
          LET final_text == JoinParts(out_parts)
              text == enhance_text(final_text, o)
          IN  /\ trace' = IF text # final_text THEN Append(trace, EnhanceEvent) ELSE trace
              /\ result' = Result(text, trace')
    /\ ext_answer' = NoPayload
    /\ pc' = "done"
    /\ UNCHANGED << config, aside, user_text, r, matched, spell_answer, query_text, steps,
                    executed, out_parts >>

\* the texts the caller may pass now
CallTexts == IF pc = "idle" THEN Texts ELSE { user_text }

Next ==
    \/ \E text \in CallTexts : Respond(text)
    \/ DeclineCheck
    \/ TemplateCheck
    \/ SpellPass
    \/ PlanSelect
    \/ ExecStep
    \/ Finish

Spec == Init /\ [][Next]_vars

\* ------------------------------------------------- longer messages
\* respond on messages of three words: a medical marker, an appointment
\* term and a counseling marker together, which the rule planner answers
\* with one retrieve step and Clarify v2 finds ambiguous; with them a
\* crisis, a template, a decline and a clarify-first message.
RecoveryTexts ==
    { << "Doctor", "availability", "workshop" >>,
      << "Doctor", "appointment", "workshop" >>,
      << "workshop", "appointment", "Doctor" >>,
      << "Doctor", "appointment", "nah" >>,
      << "appointment", "workshop" >>,
      << "nah", "therapy", "appointment" >>,
      << "therapy", "workshop" >>,
      << "suicide", "Doctor", "appointment" >> }

NextRecovery ==
    \/ \E text \in (IF pc = "idle" THEN RecoveryTexts ELSE { user_text }) : Respond(text)
    \/ DeclineCheck
    \/ TemplateCheck
    \/ SpellPass
    \/ PlanSelect
    \/ ExecStep
    \/ Finish

SpecRecovery == Init /\ [][NextRecovery]_vars

\* ------------------------------------------------------------- router probe
\* The two classifiers applied to one text.
InitRouter ==
    /\ mode = "RULE"
    /\ llm_planner = "LLMPlanner"
    /\ clarify_v2_enabled = FALSE
    /\ spell_enabled = FALSE
    /\ kb = <<>>
    /\ by_category = DefaultsDict
    /\ InitLocals
    /\ InitAside
    /\ pc = "router"

\* safety_router.route(text) and Rules.match(text)
Classify(text) ==
    /\ pc = "router"
    /\ user_text' = text
    /\ r' = route(text)
    /\ matched' = match(by_category, DefaultOrder, text)
    /\ UNCHANGED << config, aside, pc, spell_answer, query_text, ext_answer, steps, executed,
                    out_parts, trace, result >>

NextRouter == \E text \in Texts : Classify(text)

SpecRouter == InitRouter /\ [][NextRouter]_vars

\* ------------------------------------------------------------- variant probe
\* Classification of the texts that hold a variant of NORMALIZE_MAP, alone
\* or next to a trigger or a refusal word.
VariantTexts ==
    { pre \o NORMALIZE_MAP[i][1] \o post :
         i \in 1..Len(NORMALIZE_MAP),
         pre \in { <<>>, <<"therapy">>, <<"rape">>, <<"nah">> },
         post \in { <<>>, <<"therapy">>, <<"rape">>, <<"nah">> } }

NextVariants == \E text \in VariantTexts : Classify(text)

SpecVariants == InitRouter /\ [][NextVariants]_vars

\* ------------------------------------------------------------- planner probe
\* The rule planner applied to one category and one text.
InitPlanner ==
    /\ mode = "RULE"
    /\ llm_planner = "LLMPlanner"
    /\ clarify_v2_enabled = FALSE
    /\ spell_enabled = FALSE
    /\ kb \in Corpora
    /\ by_category = DefaultsDict
    /\ user_text \in Texts
    /\ r \in { NoRoute } \cup { RouteResult(LEVELS[i], KEY_MAP(LEVELS[i])) : i \in 1..Len(LEVELS) }
    /\ matched = <<None, None>>
    /\ spell_answer = NoSpellResult
    /\ query_text = <<>>
    /\ ext_answer = NoPayload
    /\ steps = <<>>
    /\ executed = 0
    /\ out_parts = <<>>
    /\ trace = <<>>
    /\ result = NoResult
    /\ InitAside
    /\ pc = "planner"

\* Planner().plan(route_level, user_text)
ApplyPlan ==
    /\ pc = "planner"
    /\ steps' = plan(r.level, user_text)
    /\ pc' = "planned"
    /\ UNCHANGED << config, aside, user_text, r, matched, spell_answer, query_text, ext_answer,
                    executed, out_parts, trace, result >>

NextPlanner == ApplyPlan

SpecPlanner == InitPlanner /\ [][NextPlanner]_vars

\* ------------------------------------------------------------- retriever module
\* The retriever's module state under retrieve calls, _reset_cache, and a
\* change of the files in KB_DIR.  A call leaves the same chunk cache and
\* index whatever its query and top_k are, so each behaviour repeats the
\* call of one query and one top_k, drawn at the start.
MaxQueryLen == 2
MaxTopK == 3

\* the queries of the calls
Queries ==
    UNION { [1..n -> { "book", "appointment", "workshop", "the" }] : n \in 0..MaxQueryLen }

\* the corpora KB_DIR may hold over the life of a process
DiskCorpora ==
    Corpora \cup { << Chunk(3, <<"book", "portal">>, <<"book">>, <<"general">>, "u3") >> }

\* _build_idf(items): a weight for every token of the chunks
build_idf(items) ==
    [built |-> TRUE,
     w |-> [t \in UNION { ChunkTokens(items[i]) : i \in 1..Len(items) } |-> Idf(items, t)]]

\* _score(query, c) after _ensure_idf, in thousandths, with the weights
\* read from the module's index: _idf.get(t, 0.0) if _idf is not None
\* else 0.0
score_by(index, q, c) ==
    LET toks == SelectSeq(tokens(q), LongToken) IN
    IF q = <<>> \/ toks = <<>>
    THEN 0
    ELSE SumTo([i \in 1..Len(toks) |->
                   (IF index.built /\ toks[i] \in DOMAIN index.w
                    THEN index.w[toks[i]] ELSE 0)
                   * Occurrences(toks, toks[i])
                   * (CountIn(c.text, toks[i]) + 2 * CountIn(c.title, toks[i])
                      + CountIn(c.category, toks[i]))],
               Len(toks))
         + Bonus(SelectSeq(Lower(q), LAMBDA w : w \notin STOPWORDS), c)

\* the body of retrieve once items and index are at hand
Scored(items, index, q, limit) ==
    IF items = <<>>
    THEN <<>>
    ELSE TopScored(items, [i \in 1..Len(items) |-> score_by(index, q, items[i])], limit)

\* _ensure_idf in the first _score of a retrieve over items
ensure_idf(items) == IF items = <<>> \/ idf.built THEN idf ELSE build_idf(items)

\* _load_kb()
load_kb == IF cached_kb.loaded THEN cached_kb.items ELSE kb

InitRetriever ==
    /\ mode = "RULE"
    /\ llm_planner = "LLMPlanner"
    /\ clarify_v2_enabled = FALSE
    /\ spell_enabled = FALSE
    /\ kb \in DiskCorpora
    /\ by_category = DefaultsDict
    /\ InitLocals
    /\ InitModule
    /\ query \in Queries
    /\ top_k \in 0..MaxTopK
    /\ InitThreads
    /\ InitCalls
    /\ csv_rows = <<>>
    /\ InitTimed
    /\ pc = "retriever"

\* retrieve(query, top_k=top_k)
Retrieve ==
    /\ pc = "retriever"
    /\ cached_kb' = [loaded |-> TRUE, items |-> load_kb]
    /\ idf' = ensure_idf(load_kb)
    /\ found' = Scored(load_kb, ensure_idf(load_kb), query, IF top_k < 1 THEN 1 ELSE top_k)
    /\ op' = "retrieve"
    /\ UNCHANGED << config, locals, query, top_k, threads, calls, csv_rows, timed >>

\* a reset that leaves the index in place
ResetChunksOnly ==
    /\ pc = "retriever"
    /\ cached_kb' = NotLoaded
    /\ op' = "reset"
    /\ UNCHANGED << config, locals, idf, query, top_k, found, threads, calls, csv_rows, timed >>

\* _reset_cache()
ResetCache ==
    /\ pc = "retriever"
    /\ cached_kb' = NotLoaded
    /\ idf' = NoIndex
    /\ op' = "reset"
    /\ UNCHANGED << config, locals, query, top_k, found, threads, calls, csv_rows, timed >>

\* the files of KB_DIR are replaced
SwapKB ==
    /\ pc = "retriever"
    /\ kb' \in DiskCorpora \ { kb }
    /\ op' = "swap"
    /\ UNCHANGED << mode, llm_planner, clarify_v2_enabled, spell_enabled, by_category,
                    locals, cached_kb, idf, query, top_k, found, threads, calls, csv_rows, timed >>

NextRetriever ==
    \/ Retrieve
    \/ ResetCache
    \/ SwapKB

SpecRetriever == InitRetriever /\ [][NextRetriever]_vars

\* ------------------------------------------------------------- concurrent retrieve
\* Two threads inside retrieve(query, top_k=top_k) on one corpus, one
\* statement of the lazy build at a time.  _build_idf stores the weights
\* in the iteration order of a set of tokens, which is any order.  A thread
\* reads the index once for its whole scoring loop.  The corpus has one
\* chunk, of three tokens.
InitBuild ==
    /\ mode = "RULE"
    /\ llm_planner = "LLMPlanner"
    /\ clarify_v2_enabled = FALSE
    /\ spell_enabled = FALSE
    /\ kb \in { c \in DiskCorpora : Len(c) = 1 }
    /\ by_category = DefaultsDict
    /\ InitLocals
    /\ InitModule
    /\ query \in Queries
    /\ top_k = MaxTopK
    /\ InitThreads
    /\ InitCalls
    /\ csv_rows = <<>>
    /\ InitTimed
    /\ pc = "threads"

\* items = _load_kb() of retrieve
LoadKB(t) ==
    /\ pc = "threads"
    /\ th_pc[t] = "idle"
    /\ cached_kb' = [loaded |-> TRUE, items |-> load_kb]
    /\ th_pc' = [th_pc EXCEPT ![t] = "ensure"]
    /\ UNCHANGED << config, locals, idf, query, top_k, found, op, th_todo, th_seen,
                    calls, csv_rows, timed >>

\* _ensure_idf: the test "_idf is None", and df of _build_idf
EnsureIdf(t) ==
    /\ th_pc[t] = "ensure"
    /\ IF idf.built
       THEN /\ th_pc' = [th_pc EXCEPT ![t] = "score"]
            /\ UNCHANGED th_todo
       ELSE /\ th_pc' = [th_pc EXCEPT ![t] = "build"]
            /\ th_todo' = [th_todo EXCEPT ![t] = DOMAIN build_idf(cached_kb.items).w]
    /\ UNCHANGED << config, locals, cached_kb, idf, query, top_k, found, op, th_seen,
                    calls, csv_rows, timed >>

\* _idf = {} of _build_idf
BuildStart(t) ==
    /\ th_pc[t] = "build"
    /\ idf' = [built |-> TRUE, w |-> NoIndex.w]
    /\ th_pc' = [th_pc EXCEPT ![t] = "fill"]
    /\ UNCHANGED << config, locals, cached_kb, query, top_k, found, op, th_todo, th_seen,
                    calls, csv_rows, timed >>

\* _idf[t] = log(...) for one more token, or the end of the loop
Fill(t) ==
    /\ th_pc[t] = "fill"
    /\ IF th_todo[t] = {}
       THEN /\ th_pc' = [th_pc EXCEPT ![t] = "score"]
            /\ UNCHANGED << idf, th_todo >>
       ELSE \E tok \in th_todo[t] :
               /\ idf' = [idf EXCEPT !.w =
                            [x \in DOMAIN idf.w \cup { tok } |->
                                Idf(cached_kb.items, x)]]
               /\ th_todo' = [th_todo EXCEPT ![t] = th_todo[t] \ { tok }]
               /\ UNCHANGED th_pc
    /\ UNCHANGED << config, locals, cached_kb, query, top_k, found, op, th_seen,
                    calls, csv_rows, timed >>

\* the scoring loops of retrieve, reading _idf
ScoreAll(t) ==
    /\ th_pc[t] = "score"
    /\ th_seen' = [th_seen EXCEPT ![t] = idf]
    /\ th_pc' = [th_pc EXCEPT ![t] = "done"]
    /\ UNCHANGED << config, locals, cached_kb, idf, query, top_k, found, op, th_todo,
                    calls, csv_rows, timed >>

NextBuild ==
    \E t \in Threads :
        \/ LoadKB(t)
        \/ EnsureIdf(t)
        \/ BuildStart(t)
        \/ Fill(t)
        \/ ScoreAll(t)

SpecBuild == InitBuild /\ [][NextBuild]_vars

\* ------------------------------------------------------------- concurrent respond
\* Two respond calls on one Dispatcher, one statement at a time, for
\* texts whose call returns at the crisis, decline or template exit.
\* Dispatcher.trace names a list; a returned trace is that list, not a
\* copy.
ConcurrentTexts ==
    { t \in { <<"suicide">>, <<"rape">>, <<"therapy">>, <<"nah", "therapy">>,
              <<"nah", "appointment">> } :
         \/ is_crisis(route(t))
         \/ decline_gate(route(t).level, t)
         \/ short_circuit(route(t), t) }

InitConcurrent ==
    /\ mode = "RULE"
    /\ llm_planner = "LLMPlanner"
    /\ clarify_v2_enabled = FALSE
    /\ spell_enabled = FALSE
    /\ kb = <<>>
    /\ by_category = DefaultsDict
    /\ InitLocals
    /\ InitAside
    /\ pc = "calls"

\* respond, line 127: self.trace = []
CallEnter(c, text) ==
    /\ pc = "calls"
    /\ call_pc[c] = "idle"
    /\ call_text' = [call_text EXCEPT ![c] = text]
    /\ lists' = [lists EXCEPT ![c] = <<>>]
    /\ self_trace' = c
    /\ call_pc' = [call_pc EXCEPT ![c] = "route"]
    /\ UNCHANGED << config, locals, cached_kb, idf, query, top_k, found, op, threads,
                    call_result, csv_rows, timed >>

\* respond, lines 130-133: route, and append the route event to self.trace
CallRoute(c) ==
    /\ call_pc[c] = "route"
    /\ lists' = [lists EXCEPT ![self_trace] =
                    Append(@, RouteEvent(route(call_text[c]).level))]
    /\ call_pc' = [call_pc EXCEPT ![c] = "gate"]
    /\ UNCHANGED << config, locals, cached_kb, idf, query, top_k, found, op, threads,
                    self_trace, call_text, call_result, csv_rows, timed >>

\* respond, lines 135-175: the crisis return, the decline event, or the
\* template return
CallGate(c) ==
    /\ call_pc[c] = "gate"
    /\ LET text == call_text[c]
           rr == route(text)
       IN  IF is_crisis(rr)
           THEN /\ call_result' = [call_result EXCEPT ![c] =
                                      Result(crisis_message, self_trace)]
                /\ call_pc' = [call_pc EXCEPT ![c] = "done"]
                /\ UNCHANGED lists
           ELSE IF decline_gate(rr.level, text)
           THEN /\ lists' = [lists EXCEPT ![self_trace] = Append(@, DeclineEvent)]
                /\ call_pc' = [call_pc EXCEPT ![c] = "declined"]
                /\ UNCHANGED call_result
           ELSE /\ call_result' = [call_result EXCEPT ![c] =
                                      Result(template_for(rr.auto_reply_key), self_trace)]
                /\ call_pc' = [call_pc EXCEPT ![c] = "done"]
                /\ UNCHANGED lists
    /\ UNCHANGED << config, locals, cached_kb, idf, query, top_k, found, op, threads,
                    self_trace, call_text, csv_rows, timed >>

\* respond, line 143: return {"text": alt_text, "trace": self.trace}
CallReturn(c) ==
    /\ call_pc[c] = "declined"
    /\ call_result' = [call_result EXCEPT ![c] = Result(safe_alternatives, self_trace)]
    /\ call_pc' = [call_pc EXCEPT ![c] = "done"]
    /\ UNCHANGED << config, locals, cached_kb, idf, query, top_k, found, op, threads,
                    lists, self_trace, call_text, csv_rows, timed >>

NextConcurrent ==
    \E c \in Threads :
        \/ \E text \in ConcurrentTexts : CallEnter(c, text)
        \/ CallRoute(c)
        \/ CallGate(c)
        \/ CallReturn(c)

SpecConcurrent == InitConcurrent /\ [][NextConcurrent]_vars

\* ------------------------------------------------------------- rule loading
\* Rules(csv_path) over a routing matrix file, then Rules.match of a text.
\* A row is what csv.DictReader and _split_triggers make of a line: its
\* category, response key ("" when empty), priority (-1 when empty) and
\* trigger terms.  RIH_ROUTING_REQUIRE_CSV and
\* RIH_ROUTE_APPOINTMENT_TO_COUNSELING are unset.
MaxRows == 2

Row(category, response_key, priority, triggers) ==
    [category |-> category, response_key |-> response_key, priority |-> priority,
     triggers |-> triggers]

\* the routing matrix files: at most MaxRows of these rows
RoutingFiles ==
    UNION { [1..n -> { Row("urgent_safety", "crisis", -1, { <<"rape">> }),
                       Row("counseling", "", 0, { <<"appointment">>, <<"workshop">> }),
                       Row("counseling", "", -1, { <<"appointment">> }),
                       Row("events", "", -1, { <<"workshop">> }),
                       Row("", "conduct", 1, { <<"nah">> }) }] : n \in 0..MaxRows }

\* Rules._load_from_csv: the rules of the file, in dict order
RECURSIVE load_from_csv(_)
load_from_csv(rows) ==
    IF rows = <<>>
    THEN <<>>
    ELSE LET prev == load_from_csv(SubSeq(rows, 1, Len(rows) - 1))
             row == rows[Len(rows)]
             terms == IF row.category = "counseling"
                      THEN row.triggers \ { <<"appointment">>, <<"appointments">> }
                      ELSE row.triggers
             rule == Rule(row.category,
                          IF row.response_key = "" THEN row.category ELSE row.response_key,
                          terms,
                          IF row.priority < 0 THEN DEFAULT_PRIORITY(row.category)
                          ELSE row.priority)
         IN  IF row.category = "" \/ terms = {}
             THEN prev
             ELSE IF \E i \in 1..Len(prev) : prev[i].category = row.category
             THEN [i \in 1..Len(prev) |->
                      IF prev[i].category = row.category THEN rule ELSE prev[i]]
             ELSE Append(prev, rule)

\* Rules._load: merged = defaults.copy(); merged.update(csv_rules)
load(csv_rules) ==
    [c \in DOMAIN DefaultsDict \cup { csv_rules[i].category : i \in 1..Len(csv_rules) } |->
        IF \E i \in 1..Len(csv_rules) : csv_rules[i].category = c
        THEN csv_rules[CHOOSE i \in 1..Len(csv_rules) : csv_rules[i].category = c]
        ELSE DefaultsDict[c]]

\* the dict order of merged: the defaults, then the new categories
load_order(csv_rules) ==
    DefaultOrder
    \o SelectSeq([i \in 1..Len(csv_rules) |-> csv_rules[i].category],
                 LAMBDA c : c \notin DOMAIN DefaultsDict)

InitRules ==
    /\ mode = "RULE"
    /\ llm_planner = "LLMPlanner"
    /\ clarify_v2_enabled = FALSE
    /\ spell_enabled = FALSE
    /\ kb = <<>>
    /\ by_category = [c \in {} |-> None]
    /\ user_text \in TextsUpTo(1)
    /\ r = NoRoute
    /\ matched = <<None, None>>
    /\ spell_answer = NoSpellResult
    /\ query_text = <<>>
    /\ ext_answer = NoPayload
    /\ steps = <<>>
    /\ executed = 0
    /\ out_parts = <<>>
    /\ trace = <<>>
    /\ result = NoResult
    /\ InitModule
    /\ query = <<>>
    /\ top_k = 0
    /\ InitThreads
    /\ InitCalls
    /\ csv_rows \in RoutingFiles
    /\ InitTimed
    /\ pc = "rules"

\* Rules.__init__
LoadRules ==
    /\ pc = "rules"
    /\ by_category' = load(load_from_csv(csv_rows))
    /\ pc' = "loaded"
    /\ UNCHANGED << mode, llm_planner, clarify_v2_enabled, spell_enabled, kb,
                    user_text, r, matched, spell_answer, query_text, ext_answer, steps,
                    executed, out_parts, trace, result, aside >>

\* Rules.match(user_text)
MatchText ==
    /\ pc = "loaded"
    /\ matched' = match(by_category, load_order(load_from_csv(csv_rows)), user_text)
    /\ pc' = "matched"
    /\ UNCHANGED << config, aside, user_text, r, spell_answer, query_text, ext_answer,
                    steps, executed, out_parts, trace, result >>

NextRules == LoadRules \/ MatchText

SpecRules == InitRules /\ [][NextRules]_vars

\* ------------------------------------------------- the timeout wrapper
\* app/agent/strands_safety.py: _call_with_timeout(fn, timeout_s) on a clock
\* of ticks.  The wrapped function is given by how long it runs (NeverEnds:
\* it does not come back) and by how it ends.
MaxTicks == 3

MaxTimeout == 2

NeverEnds == 0 - 1

Outcomes == { "reply", "", "None", "raise" }

InitTimeout ==
    /\ mode = "RULE"
    /\ llm_planner = "LLMPlanner"
    /\ clarify_v2_enabled = FALSE
    /\ spell_enabled = FALSE
    /\ kb = <<>>
    /\ by_category = DefaultsDict
    /\ InitLocals
    /\ InitModule
    /\ query = <<>>
    /\ top_k = 0
    /\ InitThreads
    /\ InitCalls
    /\ csv_rows = <<>>
    /\ fn \in [duration : { NeverEnds } \cup 0..MaxTicks, outcome : Outcomes]
    /\ timeout_s \in 1..MaxTimeout
    /\ elapsed = 0
    /\ caller_pc = "idle"
    /\ worker_done = FALSE
    /\ returned = "None"
    /\ pc = "timeout"

\* lines 49-50: the executor is entered and fn is handed to its one worker
Submit ==
    /\ pc = "timeout"
    /\ caller_pc = "idle"
    /\ caller_pc' = "result"
    /\ UNCHANGED << config, locals, cached_kb, idf, query, top_k, found, op, threads,
                    calls, csv_rows, fn, timeout_s, elapsed, worker_done, returned >>

\* the worker thread: fn comes back, with a value or with an exception
WorkerDone ==
    /\ caller_pc \in { "result", "exit" }
    /\ ~worker_done
    /\ fn.duration # NeverEnds
    /\ elapsed >= fn.duration
    /\ worker_done' = TRUE
    /\ UNCHANGED << config, locals, cached_kb, idf, query, top_k, found, op, threads,
                    calls, csv_rows, fn, timeout_s, elapsed, caller_pc, returned >>

\* lines 52 and 56-58: future.result gives fn's value, or fn's exception,
\* which is logged and turned into None
GetResult ==
    /\ caller_pc = "result"
    /\ worker_done
    /\ returned' = IF fn.outcome = "raise" THEN "None" ELSE fn.outcome
    /\ caller_pc' = "exit"
    /\ UNCHANGED << config, locals, cached_kb, idf, query, top_k, found, op, threads,
                    calls, csv_rows, fn, timeout_s, elapsed, worker_done >>

\* lines 53-55: future.result raises FuturesTimeout after timeout_s
TimedOut ==
    /\ caller_pc = "result"
    /\ ~worker_done
    /\ elapsed >= timeout_s
    /\ returned' = "None"
    /\ caller_pc' = "exit"
    /\ UNCHANGED << config, locals, cached_kb, idf, query, top_k, found, op, threads,
                    calls, csv_rows, fn, timeout_s, elapsed, worker_done >>

\* line 49: leaving the with block is executor.shutdown(wait=True), which
\* joins the worker thread before the return statement completes
ExitWith ==
    /\ caller_pc = "exit"
    /\ worker_done
    /\ caller_pc' = "returned"
    /\ UNCHANGED << config, locals, cached_kb, idf, query, top_k, found, op, threads,
                    calls, csv_rows, fn, timeout_s, elapsed, worker_done, returned >>

\* time passes while the caller waits; the timeout and the end of fn happen
\* at their time
Tick ==
    /\ caller_pc \in { "result", "exit" }
    /\ elapsed < MaxTicks
    /\ ~(caller_pc = "result" /\ (worker_done \/ elapsed >= timeout_s))
    /\ ~(caller_pc = "exit" /\ worker_done)
    /\ ~(~worker_done /\ fn.duration # NeverEnds /\ elapsed >= fn.duration)
    /\ elapsed' = elapsed + 1
    /\ UNCHANGED << config, locals, cached_kb, idf, query, top_k, found, op, threads,
                    calls, csv_rows, fn, timeout_s, caller_pc, worker_done, returned >>

NextTimeout == Submit \/ WorkerDone \/ GetResult \/ TimedOut \/ ExitWith \/ Tick

\* every thread that can run does run, and time passes
SpecTimeout ==
    /\ InitTimeout
    /\ [][NextTimeout]_vars
    /\ WF_vars(Submit)
    /\ WF_vars(WorkerDone)
    /\ WF_vars(GetResult)
    /\ WF_vars(TimedOut)
    /\ WF_vars(ExitWith)
    /\ WF_vars(Tick)

\* ------------------------------------------------------------- properties
\* C1: every input the router classifies as urgent_safety (response key
\* crisis), also one that is a decline phrase or matches another category,
\* makes respond return exactly the crisis template and a trace whose only
\* event is the route event: no decline, spell_correct, plan, tool or
\* enhance event, no plan, no step executed.
C1_CrisisIsTerminal ==
    (pc # "idle" /\ route(user_text).level = "urgent_safety")
        => /\ route(user_text).auto_reply_key = "crisis"
           /\ pc = "done"
           /\ result = Result(crisis_message, << RouteEvent("urgent_safety") >>)
           /\ trace = << RouteEvent("urgent_safety") >>
           /\ steps = <<>>
           /\ executed = 0
           /\ out_parts = <<>>

\* a crisis input that is also a decline phrase has been answered
C1_Witness ==
    /\ pc = "done"
    /\ route(user_text).level = "urgent_safety"
    /\ is_decline(user_text)
    /\ result.text = crisis_message

\* C2: an input that matches the urgent_safety patterns and the patterns of
\* another category is classified urgent_safety, by safety_router.route over
\* its patterns and by Rules.match over the built-in default rules.
C2_UrgentSafetyFirst ==
    LET others == { "title_ix", "harassment_hate", "retention_withdraw", "counseling" } IN
    /\ ( /\ SearchWords(URGENCY, user_text)
         /\ \E l \in others : SearchWords(COMPILED(l), user_text) )
          => r.level = "urgent_safety"
    /\ ( /\ SearchWords(DefaultsDict["urgent_safety"].patterns, normalize(user_text))
         /\ \E c \in others : SearchWords(DefaultsDict[c].patterns, normalize(user_text)) )
          => matched[1] = "urgent_safety"

\* a text with an urgent_safety trigger and a Title IX trigger has been
\* classified by both classifiers
C2_Witness ==
    /\ pc = "router"
    /\ SearchWords(URGENCY, user_text)
    /\ SearchWords(TITLE_IX, user_text)
    /\ r.level = "urgent_safety"
    /\ matched = << "urgent_safety", "crisis" >>

C4_TemplateShortCircuit ==
    LET rr == route(user_text)
        cue == ContainsAny(Lower(user_text), APPT_OR_GROUP_MARKERS)
        past == pc \notin { "idle", "decline", "template" }
    IN  /\ ( /\ past
             /\ ~is_decline(user_text)
             /\ \/ rr.level \in { "title_ix", "harassment_hate", "retention_withdraw" }
                \/ rr.level = "counseling" /\ ~cue )
              => /\ pc = "done"
                 /\ trace = << RouteEvent(rr.level) >>
                 /\ result = Result(template_for(KEY_MAP(rr.level)), trace)
                 /\ steps = <<>>
                 /\ executed = 0
                 /\ out_parts = <<>>
        /\ ( /\ past
             /\ ~is_decline(user_text)
             /\ rr.level = "counseling"
             /\ cue )
              => \/ pc \in { "spell", "plan" }
                 \/ \E i \in 1..Len(trace) : trace[i].event = "plan"

\* a counseling input without a cue has been answered with the counseling
\* template
C4_Witness ==
    /\ pc = "done"
    /\ route(user_text).level = "counseling"
    /\ ~ContainsAny(Lower(user_text), APPT_OR_GROUP_MARKERS)
    /\ result = Result(template_for("counseling"), << RouteEvent("counseling") >>)

\* C5 as stated: in every respond call the clarify-then-retrieve
\* auto-recovery fires at most once, and only if the first executed step
\* was a retrieve that returned zero chunks and the original text contains
\* an appointment-like term and no medical or counseling marker, under
\* both clarify detectors and both planner modes.
C5_AutoRecoveryOnlyWithoutMarker ==
    LET autos == { i \in 1..Len(trace) : trace[i] = AutoClarifyEvent } IN
    /\ Cardinality(autos) <= 1
    /\ \A i \in autos :
          /\ i >= 2
          /\ trace[i - 1] = ToolEvent("retrieve", 0)
          /\ \A j \in 1..(i - 2) : trace[j].event # "tool"
          /\ looks_like_appointment(user_text)
          /\ ~ContainsAny(Lower(user_text), LEGACY_MARKERS)

\* C5: in every respond call the clarify-then-retrieve auto-recovery fires
\* at most once, only right after a first executed step that was a retrieve
\* returning zero chunks, and only when the active detector flags the
\* original text: the legacy heuristic when the text contains "appointment"
\* and none of its ten medical/counseling markers; CLARIFY_V2 when the text
\* contains an intent marker and no exclusion term, and contains either
\* neither or both of a medical and a counseling marker.
C5_AutoRecoveryGuarded ==
    LET autos == { i \in 1..Len(trace) : trace[i] = AutoClarifyEvent }
        retries == { i \in 1..Len(trace) : trace[i].retry }
        t == Lower(user_text)
        med == ContainsAny(t, medical_markers)
        coun == ContainsAny(t, counseling_markers)
    IN  /\ Cardinality(autos) <= 1
        /\ Cardinality(retries) <= 1
        /\ \A i \in autos :
              /\ i >= 2
              /\ trace[i - 1] = ToolEvent("retrieve", 0)
              /\ \A j \in 1..(i - 2) : trace[j].event # "tool"
              /\ IF clarify_v2_enabled
                 THEN /\ ContainsAny(t, intent_markers)
                      /\ ~ContainsAny(t, exclusion_terms)
                      /\ med <=> coun
                 ELSE /\ In(<<"appointment">>, t)
                      /\ ~ContainsAny(t, LEGACY_MARKERS)

\* under CLARIFY_V2 the auto-recovery has fired for a text with both a
\* medical and a counseling marker
C5_Witness ==
    /\ pc = "done"
    /\ clarify_v2_enabled
    /\ ContainsAny(Lower(user_text), medical_markers)
    /\ ContainsAny(Lower(user_text), counseling_markers)
    /\ \E i \in 2..Len(trace) :
          trace[i] = AutoClarifyEvent /\ trace[i - 1] = ToolEvent("retrieve", 0)

\* C6: whenever the first executed step of a respond call is a retrieve
\* with zero hits and the text contains an appointment-like term and no
\* medical or counseling marker, the tool events of the trace are that
\* retrieve, then exactly one clarify, then exactly one retry retrieve, and
\* no further plan step is executed.
C6_EmptyRetrieveIsRecovered ==
    LET IsTool(e) == e.event = "tool"
        tools == SelectSeq(trace, IsTool)
    IN  ( /\ pc = "done"
          /\ tools # <<>>
          /\ tools[1] = ToolEvent("retrieve", 0)
          /\ looks_like_appointment(user_text)
          /\ ~ContainsAny(Lower(user_text), LEGACY_MARKERS) )
            => /\ Len(tools) = 3
               /\ tools[2] = AutoClarifyEvent
               /\ tools[3].name = "retrieve" /\ tools[3].retry
               /\ executed = 1

\* C7: whatever the length of the plan and whichever planner made it, the
\* plan steps respond executes are the first one or two steps of the plan,
\* in plan order; a step at position three or later is never executed.
C7_AtMostTwoSteps ==
    LET IsPlanStep(e) == e.event = "tool" /\ ~e.auto /\ ~e.retry
        ran == SelectSeq(trace, IsPlanStep)
    IN  /\ Len(ran) <= 2
        /\ Len(ran) <= Len(steps)
        /\ executed = Len(ran)
        /\ \A i \in 1..Len(ran) : ran[i].name = steps[i].tool

\* a plan of three or more steps has been run to the end
C7_Witness ==
    /\ pc = "done"
    /\ Len(steps) >= 3
    /\ executed = 2
    /\ Len(out_parts) = 2

\* C8: respond never raises: for every text and every behaviour of the
\* spelling corrector, the external planner (also a payload that passes the
\* whitelist check and carries arbitrary input values) and the enhancer,
\* the call returns a {text, trace} result.
C8_RespondNeverRaises == pc # "raised"

\* C9: in LLM mode, whenever the external planner fails (it raises, or
\* returns invalid JSON, a payload that is not a list or is empty, a first
\* step with a tool outside the whitelist or without an input object), the
\* plan is the rule planner's plan for the same category and query text,
\* the trace holds exactly one plan event and it is marked rule_fallback,
\* the steps executed are those of that plan, and the caller gets a text
\* result.
C9_FallbackToRulePlanner ==
    LET plans == { i \in 1..Len(trace) : trace[i].event = "plan" }
        fails(a) ==
            \/ a.kind \in { "raise", "badjson" }
            \/ /\ a.kind = "json"
               /\ \/ ~a.islist
                  \/ a.items = <<>>
                  \/ ~a.items[1].isdict
                  \/ a.items[1].tool \notin ALLOWED_TOOLS
                  \/ ~a.items[1].hasinput
                  \/ ~a.items[1].input.isdict
        fallback == PlanEvent("rule_fallback", plan(r.level, query_text))
        IsPlanStep(e) == e.event = "tool" /\ ~e.auto /\ ~e.retry
        ran == SelectSeq(trace, IsPlanStep)
    IN  /\ (mode = "LLM" /\ ext_answer # NoPayload /\ fails(ext_answer))
              => /\ pc \in { "exec", "enhance" }
                 /\ trace[Len(trace)] = fallback
        /\ (\E i \in plans : trace[i].planner = "rule_fallback")
              => /\ mode = "LLM"
                 /\ Cardinality(plans) = 1
                 /\ \A i \in plans : trace[i] = fallback
                 /\ steps = plan(r.level, query_text)
                 /\ pc # "raised"
                 /\ pc = "done"
                       => /\ [i \in 1..Len(ran) |-> ran[i].name]
                             = [i \in 1..Len(steps) |-> steps[i].tool]
                          /\ result.text # <<>>
                          /\ result.trace = trace

\* a call whose external planner failed has returned
C9_Witness ==
    /\ pc = "done"
    /\ mode = "LLM"
    /\ \E i \in 1..Len(trace) : trace[i].planner = "rule_fallback"
    /\ executed = Len(steps)
    /\ result.text # <<>>

\* C10: the spelling pass cannot influence routing: the route event and
\* the crisis, decline and template decisions of a call are determined by
\* the user text alone, whatever the corrector returns and whether or not
\* it fails; and when the corrector fails or returns empty or unchanged
\* text, planning and retrieval use the original text and no spell_correct
\* event is recorded.
C10_SpellingCannotInfluenceRouting ==
    LET rr == route(user_text)
        decision ==
            IF rr # NoRoute /\ rr.auto_reply_key = "crisis" THEN "direct"
            ELSE IF is_decline(user_text) THEN "decline"
            ELSE IF /\ rr # NoRoute
                    /\ \/ rr.level # "counseling"
                       \/ ~ContainsAny(Lower(user_text), APPT_OR_GROUP_MARKERS)
            THEN "direct"
            ELSE "plan"
        has(ev) == \E i \in 1..Len(trace) : trace[i].event = ev
        taken == IF has("decline") THEN "decline"
                 ELSE IF has("plan") THEN "plan" ELSE "direct"
        unusable(o) ==
            \/ o.kind = "raise"
            \/ o.text.type # "str"
            \/ o.text.s = <<>>
            \/ o.text.s = user_text
    IN  /\ pc # "idle" => r = rr /\ trace # <<>> /\ trace[1] = RouteEvent(rr.level)
        /\ pc \in { "done", "raised" } => taken = decision
        /\ (pc = "done" /\ taken = "direct")
              => result = Result(template_for(rr.auto_reply_key), << RouteEvent(rr.level) >>)
        /\ pc \in { "decline", "template", "spell" }
              => ~has("spell_correct") /\ spell_answer = NoSpellResult
        /\ (pc = "plan" /\ spell_answer # NoSpellResult /\ unusable(spell_answer))
              => query_text = user_text /\ ~has("spell_correct")
        /\ (pc = "plan" \/ has("plan"))
              => /\ has("spell_correct") <=> query_text # user_text
                 /\ \A i \in 1..Len(trace) :
                       trace[i].event = "plan" /\ trace[i].planner # "llm"
                          => trace[i].steps = plan(rr.level, query_text)

\* the corrector has failed and the original text goes to the planner
C10_Witness ==
    /\ pc = "plan"
    /\ spell_enabled
    /\ spell_answer.kind = "raise"
    /\ user_text # <<>>
    /\ query_text = user_text
    /\ Len(trace) = 1

\* C11: the enhancement pass is fail-closed: when the enhancer raises or
\* returns a non-string, an empty or an identical text, the text respond
\* returns is the assembled pre-enhancement text; an enhance event is
\* recorded if and only if the returned text differs from the
\* pre-enhancement text, and it is then the last event of the trace.
C11_EnhancementFailsClosed ==
    [][ (pc = "enhance" /\ pc' = "done")
          => LET pre == JoinParts(out_parts) IN
             /\ \A o \in { "raise", "nonstring", "empty", "same" } :
                   enhance_text(pre, o) = pre
             /\ result'.text \in { enhance_text(pre, o) : o \in EnhanceOutcomes }
             /\ \A i \in 1..Len(trace) : trace[i] # EnhanceEvent
             /\ IF result'.text # pre
                THEN trace' = Append(trace, EnhanceEvent)
                ELSE trace' = trace
             /\ result'.trace = trace' ]_vars

\* a call has returned the text its enhancer rewrote
C11_Witness ==
    /\ pc = "done"
    /\ out_parts # <<>>
    /\ result.text = Enhanced(JoinParts(out_parts))
    /\ trace[Len(trace)] = EnhanceEvent
    /\ result.trace = trace

\* C12: the text respond returns contains no two equal lines (the empty
\* separator lines aside): a line repeated across the outputs of the
\* executed steps, such as the output of the first retrieve and of the
\* retry retrieve, is collapsed to its first occurrence.
C12_NoRepeatedLines ==
    pc = "done"
        => \A i \in 1..Len(result.text) : \A j \in 1..Len(result.text) :
              (i < j /\ result.text[i] = result.text[j]) => result.text[i] = Blank

\* C13: Planner.plan('counseling', text) returns exactly one step, a
\* retrieve step, whenever the text contains a group/workshop marker
\* (support group, group counseling, groups, workshop), whether or not the
\* text is also appointment-like, so that respond runs a retrieve on such a
\* counseling message instead of returning the static counseling template.
C13_GroupMarkerPlansRetrieve ==
    LET group == { <<"support", "group">>, <<"group", "counseling">>,
                   <<"groups">>, <<"workshop">> }
    IN  ( /\ pc = "planned"
          /\ r.level = "counseling"
          /\ ContainsAny(Lower(user_text), group) )
            => /\ Len(steps) = 1
               /\ steps[1].tool = "retrieve"

\* C14: for category counseling (text without group/workshop marker) and
\* for category null, an appointment-like text with no medical marker is
\* planned as exactly [clarify, retrieve] with the original text as the
\* retrieve query; for category null every other text is planned as one
\* retrieve step with the original text as query, and for counseling every
\* other text as one counseling template step.  Every plan has one or two
\* steps, and the plan is a function of category and text.
C14_ClarifyThenRetrieve ==
    LET t == Lower(user_text)
        group == ContainsAny(t, { <<"support", "group">>, <<"group", "counseling">>,
                                  <<"groups">>, <<"workshop">> })
        ambiguous == /\ ContainsAny(t, APPT_WORDS \cup APPT_AMBIG_WORDS)
                     /\ ~ContainsAny(t, MEDICAL_MARKERS)
        asked == PlanStep("retrieve", QueryInput(StrVal(user_text)))
    IN  pc = "planned"
          => /\ ( /\ ambiguous
                  /\ \/ r.level = None
                     \/ r.level = "counseling" /\ ~group )
                   => steps = << ClarifyStep, asked >>
             /\ (r.level = None /\ ~ambiguous) => steps = << asked >>
             /\ (r.level = "counseling" /\ ~ambiguous)
                   => steps = << PlanStep("counseling", NoQueryInput) >>
             /\ Len(steps) \in { 1, 2 }
             /\ steps = plan(r.level, user_text)

\* an unrouted text with an ambiguous scheduling synonym and a capital
\* letter has been planned as clarify, then retrieve of the original text
C14_Witness ==
    /\ pc = "planned"
    /\ r.level = None
    /\ ~ContainsAny(Lower(user_text), APPT_WORDS)
    /\ ContainsAny(Lower(user_text), APPT_AMBIG_WORDS)
    /\ Len(steps) = 2
    /\ steps[1].tool = "clarify"
    /\ steps[2] = PlanStep("retrieve", QueryInput(StrVal(user_text)))

\* C15: for category title_ix, harassment_hate or retention_withdraw,
\* Planner.plan returns exactly one step whose tool is the category's
\* template tool of the closed tool set (title_ix, conduct, retention), so
\* that the dispatcher's tool execution of the step yields the category's
\* fixed template and no retrieval.
C15_CategoryPlansTemplateTool ==
    ( /\ pc = "planned"
      /\ r.level \in { "title_ix", "harassment_hate", "retention_withdraw" } )
        => /\ Len(steps) = 1
           /\ steps[1].tool = KEY_MAP(r.level)
           /\ steps[1].tool \in { "retrieve", "clarify", "counseling", "title_ix",
                                  "conduct", "retention", "crisis" }
           /\ exec_tool(kb, steps[1].tool, user_text, steps[1].input)
                = Returned(ToolResult(template_for(KEY_MAP(r.level)), NO_HITS))

\* C16: for every query, corpus and k >= 0, retrieve(query, top_k=k)
\* returns at most k chunks, each with a strictly positive score for the
\* query, in strictly descending score order, and returns the empty list
\* when no chunk scores positive.
C16_TopKPositiveDescending ==
    op = "retrieve"
        => LET s == [i \in 1..Len(found) |-> score(cached_kb.items, query, found[i])] IN
           /\ Len(found) <= top_k
           /\ \A i \in 1..Len(found) : s[i] > 0
           /\ \A i \in 1..Len(found) : \A j \in 1..Len(found) : i < j => s[i] > s[j]
           /\ (\A i \in 1..Len(cached_kb.items) :
                  score(cached_kb.items, query, cached_kb.items[i]) <= 0)
                 => found = <<>>

\* what holds of every step of the retriever module; rebuilds says whether
\* the call after a reset builds the index of the corpus it loaded
Caching(rebuilds) ==
    /\ (cached_kb.loaded /\ cached_kb'.loaded) => cached_kb' = cached_kb
    /\ (idf.built /\ idf'.built) => idf' = idf
    /\ (op' = "retrieve" /\ cached_kb.loaded) => found' = found
    /\ op' = "retrieve"
          => found' = retrieve(cached_kb'.items, StrVal(query), top_k).value
    /\ op' = "reset" => (~cached_kb'.loaded /\ ~idf'.built)
    /\ (op' = "retrieve" /\ ~cached_kb.loaded)
          => /\ cached_kb' = [loaded |-> TRUE, items |-> kb]
             /\ rebuilds => idf' = build_idf(kb)

\* C17 as stated: no reload and no rebuild between resets, a repeated query
\* returns the identical list, a reset clears chunk cache and index
\* together, and the next call reloads the corpus and rebuilds the index.
C17_CachedUntilReset == [][Caching(TRUE)]_vars

\* C17: across retrieve calls with no _reset_cache in between the corpus is
\* loaded at most once and the index is built at most once, and repeating a
\* query returns the identical list; _reset_cache clears chunk cache and
\* index together, and the next call reloads the corpus and, when the
\* corpus it loaded has chunks, rebuilds the index from it.
C17_CachedUntilResetNonEmpty == [][Caching(kb # <<>>)]_vars

\* a call answered from the cached corpus and index after the files of
\* KB_DIR were replaced by other chunks
C17_Witness ==
    /\ op = "retrieve"
    /\ cached_kb.loaded
    /\ cached_kb.items # kb
    /\ kb # <<>>
    /\ idf = build_idf(cached_kb.items)
    /\ found # <<>>
    /\ found # Scored(kb, build_idf(kb), query, IF top_k < 1 THEN 1 ELSE top_k)

\* C18: while one caller performs the lazy first build of the index, a
\* concurrent caller of retrieve scores against the fully built index (or
\* sees the state before the build and builds it), never against an index
\* that is non-null but lacks weights for tokens of the loaded chunks, and
\* two concurrent calls for the same query on the same corpus return the
\* same ranking.
C18_NoPartialIndexObserved ==
    /\ \A t \in Threads :
          th_pc[t] = "done" => th_seen[t] = build_idf(cached_kb.items)
    /\ (\A t \in Threads : th_pc[t] = "done")
          => Scored(cached_kb.items, th_seen[1], query, top_k)
               = Scored(cached_kb.items, th_seen[2], query, top_k)

\* C19: under every interleaving of two respond calls on one Dispatcher,
\* the trace each call returned holds exactly the events of that call, its
\* own route event first, and no event of the other call.
C19_CallsAreIndependent ==
    \A c \in Threads :
        call_pc[c] = "done"
            => LET text == call_text[c]
                   own == << RouteEvent(route(text).level) >>
                          \o IF decline_gate(route(text).level, text)
                             THEN << DeclineEvent >>
                             ELSE <<>>
               IN  lists[call_result[c].trace] = own

\* C20: when the routing matrix file defines a category that has a
\* built-in default rule, the merged rule of that category keeps every
\* default trigger (the trigger sets are unioned) and so matches every text
\* the default rule matches; no default trigger of any category, in
\* particular of urgent_safety, is dropped by the merge.
C20_MergeKeepsDefaultTriggers ==
    pc \in { "loaded", "matched" }
        => \A c \in DOMAIN DefaultsDict :
              /\ DefaultsDict[c].patterns \subseteq by_category[c].patterns
              /\ SearchWords(DefaultsDict[c].patterns, normalize(user_text))
                    => SearchWords(by_category[c].patterns, normalize(user_text))

\* C21: in every rule set Rules builds (the defaults alone, or merged with
\* a routing matrix file, priorities of the file included), the
\* urgent_safety rule has a priority number strictly below that of every
\* other rule, so that Rules.match returns urgent_safety for a text its
\* patterns accept.
C21_UrgentSafetyHasLowestPriority ==
    /\ pc \in { "loaded", "matched" }
          => \A c \in DOMAIN by_category \ { "urgent_safety" } :
                by_category["urgent_safety"].priority < by_category[c].priority
    /\ ( /\ pc = "matched"
         /\ SearchWords(by_category["urgent_safety"].patterns, normalize(user_text)) )
          => matched[1] = "urgent_safety"

\* C22: routing inside respond applies the normalization table before
\* matching: for every entry (variant, canonical) of NORMALIZE_MAP, a
\* message containing the variant is routed to the category of the same
\* message with the canonical form substituted.
C22_VariantsRouteAsCanonical ==
    pc = "router"
        => \A i \in 1..Len(NORMALIZE_MAP) :
              LET canonical == Replace(Lower(user_text), NORMALIZE_MAP[i][1],
                                       NORMALIZE_MAP[i][2])
              IN  canonical # Lower(user_text) => r.level = route(canonical).level

\* C23: a message whose only matched trigger is a generic harassment term
\* (harass, harassed, harassment, harassing, with no sexual qualifier and
\* no urgent-safety marker) is routed to title_ix, and respond returns the
\* Title IX template.
C23_GenericHarassmentIsTitleIX ==
    ( /\ pc = "done"
      /\ SearchWords({ <<w>> : w \in HarassForms }, user_text)
      /\ ~SearchWords(URGENCY \cup TITLE_IX \cup RETENTION \cup COUNSELING, user_text)
      /\ ~SearchWords(CONDUCT \ { <<w>> : w \in HarassForms }, user_text) )
        => /\ r.level = "title_ix"
           /\ result.text = template_for("title_ix")

\* C24: is_decline is true only for a message that holds both a refusal
\* phrase and a service-domain keyword, or a refusal phrase that itself
\* names the service; for a message with a refusal phrase and no
\* service-domain keyword respond returns no alternatives block and records
\* no decline event.
C24_DeclineNeedsServiceKeyword ==
    LET keyword == SearchWords({ <<k>> : k \in SERVICE_KEYWORDS }, user_text)
        refusal == SearchWords(DECLINE_PHRASES \cup { <<"no">> }, user_text)
        in_domain == (refusal /\ keyword) \/ ExplicitDecline(user_text)
    IN  (pc = "done" /\ ~in_domain)
            => /\ ~is_decline(user_text)
               /\ result.text # safe_alternatives
               /\ \A i \in 1..Len(result.trace) : result.trace[i] # DeclineEvent

C26_TimeoutCallReturns ==
    (caller_pc = "result") ~> (caller_pc = "returned")


C28_NoAutoRecoveryUnderRulePlanner ==
    ( /\ mode # "LLM"
      /\ ~clarify_v2_enabled
      /\ pc \in { "exec", "enhance", "done" }
      /\ query_text = user_text )
        => /\ \A i \in 1..Len(trace) : trace[i] # AutoClarifyEvent
           /\ ( /\ executed >= 1
                /\ FirstTwo(steps)[1].tool = "retrieve"
                /\ exec_tool(kb, "retrieve", query_text, FirstTwo(steps)[1].input).value.hits = 0 )
                 => ~should_auto_clarify(user_text)


\* a call under the rule planner and the legacy heuristic, on a text with
\* "appointment", has returned after a first retrieve that found nothing
C28_Witness ==
    /\ mode # "LLM"
    /\ ~clarify_v2_enabled
    /\ query_text = user_text
    /\ pc = "done"
    /\ In(<<"appointment">>, Lower(user_text))
    /\ executed = 1
    /\ steps[1].tool = "retrieve"
    /\ \E i \in 1..Len(result.trace) : result.trace[i] = ToolEvent("retrieve", 0)


\* C29: whenever the auto-recovery fires on a plan of the rule planner and
\* no spelling correction was applied, the retry retrieve has the query of
\* the failed first retrieve, it finds nothing either, and the assembled
\* text holds the not-found message twice, around the clarify question.
C29_RetryRepeatsTheMiss ==
    ( /\ pc \in { "enhance", "done" }
      /\ \E i \in 1..Len(trace) : trace[i] = AutoClarifyEvent
      /\ \E i \in 1..Len(trace) :
            trace[i].event = "plan" /\ trace[i].planner \in { "rule", "rule_fallback" }
      /\ query_text = user_text )
        => LET first_query == IF steps[1].input.hasq THEN steps[1].input.q
                              ELSE StrVal(query_text)
               miss == from_chunks(<<>>)
           IN  /\ steps[1].tool = "retrieve"
               /\ first_query = StrVal(query_text)
               /\ \E i \in 1..Len(trace) : trace[i] = RetryEvent(0)
               /\ \A i \in 1..Len(trace) : trace[i].retry => trace[i].hits = 0
               /\ out_parts = << miss, run_clarify, miss >>
               /\ JoinParts(out_parts) = miss \o << Blank >> \o run_clarify \o << Blank >> \o miss

\* the auto-recovery fired on a plan of the rule planner, without spelling
\* correction, and the call has returned
C29_Witness ==
    /\ pc = "done"
    /\ mode # "LLM"
    /\ query_text = user_text
    /\ \E i \in 1..Len(result.trace) : result.trace[i] = AutoClarifyEvent
    /\ \E i \in 1..Len(result.trace) : result.trace[i] = RetryEvent(0)


====
